---- MODULE Spec2Model ----
(***************************************************************************)
(* Productivity tracker (src/app/app.py): the Flask request handlers over  *)
(* the SQLite schema of init_db, as a state machine.                       *)
(*                                                                         *)
(* Every handler is an operator from a request context (the database, the  *)
(* caller's session, the rate limiter's store, the clock) and a request to *)
(* a result (the database it commits, the session it leaves, the HTTP      *)
(* status and the body).  One action per handler applies it.               *)
(*                                                                         *)
(* Text is a sequence of one-character strings, so that strip, truncate,   *)
(* lower and html.escape are computed and not assumed.  SQL NULL and       *)
(* Python None are 0 for ids (AUTOINCREMENT ids start at 1) and NoDate for *)
(* due_date.  The created_at / added_at / updated_at columns are left out: *)
(* no handler modelled here branches on them.                              *)
(***************************************************************************)
EXTENDS Integers, Sequences, FiniteSets, TLC

\* ------------------------------------------------------ program constants
RATE_LIMIT == 10
RATE_WINDOW == 60
MAX_STR == 1000
MAX_TEXT == 5000
MinPasswordLen == 6
MaxPasswordLen == 128
MinUsernameLen == 3
MaxUsernameLen == 30

\* ------------------------------------------------------------------- text
Whitespace == {" ", "\t", "\n"}
Uppers == <<"A","B","C","D","E","F","G","H","I","J","K","L","M",
            "N","O","P","Q","R","S","T","U","V","W","X","Y","Z">>
Lowers == <<"a","b","c","d","e","f","g","h","i","j","k","l","m",
            "n","o","p","q","r","s","t","u","v","w","x","y","z">>
Digits == {"0","1","2","3","4","5","6","7","8","9"}
LowerLetters == {Lowers[i] : i \in 1..Len(Lowers)}

Min(a, b) == IF a < b THEN a ELSE b

\* str.lower(), one character
LowerChar(c) ==
    IF \E i \in 1..Len(Uppers) : Uppers[i] = c
    THEN Lowers[CHOOSE i \in 1..Len(Uppers) : Uppers[i] = c]
    ELSE c

\* str.lower()
lower(s) == [i \in 1..Len(s) |-> LowerChar(s[i])]

RECURSIVE lstrip(_)
lstrip(s) == IF s # <<>> /\ Head(s) \in Whitespace THEN lstrip(Tail(s)) ELSE s

RECURSIVE rstrip(_)
rstrip(s) ==
    IF s # <<>> /\ s[Len(s)] \in Whitespace
    THEN rstrip(SubSeq(s, 1, Len(s) - 1))
    ELSE s

\* str.strip()
strip(s) == rstrip(lstrip(s))

\* s[:n]
Take(s, n) == SubSeq(s, 1, Min(Len(s), n))

\* html.escape(s, quote=True), one character
EscapeChar(c) ==
    CASE c = "&"  -> <<"&","a","m","p",";">>
      [] c = "<"  -> <<"&","l","t",";">>
      [] c = ">"  -> <<"&","g","t",";">>
      [] c = "\"" -> <<"&","q","u","o","t",";">>
      [] c = "'"  -> <<"&","#","x","2","7",";">>
      [] OTHER    -> <<c>>

RECURSIVE html_escape(_)
html_escape(s) ==
    IF s = <<>> THEN <<>> ELSE EscapeChar(Head(s)) \o html_escape(Tail(s))

\* _san(val, maxlen): strip, truncate, escape HTML (val is a str here)
_san(val, maxlen) == html_escape(Take(strip(val), maxlen))

\* _san_text(val)
_san_text(val) == _san(val, MAX_TEXT)

\* re.match(r"^[a-z0-9_]{3,30}$", username)
UsernameOk(u) ==
    /\ Len(u) >= MinUsernameLen
    /\ Len(u) <= MaxUsernameLen
    /\ \A i \in 1..Len(u) : u[i] \in LowerLetters \cup Digits \cup {"_"}

\* _valid_date(val): None, or val when it matches ^\d{4}-\d{2}-\d{2}$
NoDate == <<>>
DateShaped(v) ==
    /\ Len(v) = 10
    /\ \A i \in {1,2,3,4,6,7,9,10} : v[i] \in Digits
    /\ v[5] = "-" /\ v[8] = "-"
_valid_date(val) == IF val # NoDate /\ DateShaped(val) THEN val ELSE NoDate

\* generate_password_hash / check_password_hash: an opaque salted hash that
\* verifies exactly the password it was made from.
generate_password_hash(pw) == [hash_of |-> pw]
check_password_hash(h, pw) == h.hash_of = pw

\* The catalog's keys (FRAMEWORKS).
FRAMEWORKS ==
    {"eisenhower", "timeboxing", "impact_effort", "kanban", "stop_doing", "pareto"}

\* ------------------------------------------------------------------ state
Clients == {1}

VARIABLES
    users, lists, list_items, list_frameworks, item_framework_data,
    tags, item_tags, list_shares, item_comments, list_templates,
    seq,          \* sqlite_sequence: the last AUTOINCREMENT id per table
    session,      \* per client: the signed session cookie's content
    rate_store,   \* _rate_store: per key, the timestamps inside the window
    now,          \* time.time(), in seconds
    last,         \* the response last sent: handler, caller, status, and
                  \* whether the request changed the database, inserted a row
    worker_store, \* _rate_store of each gunicorn worker process
    thr,          \* per request thread: where it stands in its handler
    db_writer,    \* the thread holding SQLite's write lock, if any
    arrived,      \* requests handed to the request threads so far
    admitted      \* per client: the times of the requests past the limiter

tables ==
    <<users, lists, list_items, list_frameworks, item_framework_data,
      tags, item_tags, list_shares, item_comments, list_templates, seq>>
threads_vars == <<worker_store, thr, db_writer, arrived, admitted>>
vars == <<tables, session, rate_store, now, last, threads_vars>>

\* The database as one value, as a handler sees it through get_db().
DB ==
    [users |-> users, lists |-> lists, list_items |-> list_items,
     list_frameworks |-> list_frameworks,
     item_framework_data |-> item_framework_data,
     tags |-> tags, item_tags |-> item_tags, list_shares |-> list_shares,
     item_comments |-> item_comments, list_templates |-> list_templates,
     seq |-> seq]

TableNames ==
    {"users", "lists", "list_items", "list_frameworks", "item_framework_data",
     "tags", "list_shares", "item_comments", "list_templates"}

\* init_db(): the empty schema.
EmptyDB ==
    [users |-> {}, lists |-> {}, list_items |-> {}, list_frameworks |-> {},
     item_framework_data |-> {}, tags |-> {}, item_tags |-> {},
     list_shares |-> {}, item_comments |-> {}, list_templates |-> {},
     seq |-> [t \in TableNames |-> 0]]

\* A session with no "user_id" key.
NoUser == 0
NoSession == [user_id |-> NoUser, username |-> <<>>]

\* ---------------------------------------------------------- rate limiter
\* key = f"{ip}:{key_suffix}"; one address per client.
RateKey(c, suffix) == <<c, suffix>>
RateKeys == {RateKey(c, "auth") : c \in Clients}

\* _rate_limited(key_suffix): [limited, store]
_rate_limited(store, key, t) ==
    LET InWindow(x) == t - x < RATE_WINDOW
        kept == SelectSeq(store[key], InWindow)
    IN  IF Len(kept) >= RATE_LIMIT
        THEN [limited |-> TRUE, store |-> [store EXCEPT ![key] = kept]]
        ELSE [limited |-> FALSE,
              store |-> [store EXCEPT ![key] = Append(kept, t)]]

\* ------------------------------------------------------ handler plumbing
\* What a handler runs against.
Ctx(c) ==
    [db |-> DB, sess |-> session[c], rate |-> rate_store, now |-> now,
     key |-> RateKey(c, "auth")]

\* A response that commits nothing.
Reply(ctx, status, body) ==
    [db |-> ctx.db, sess |-> ctx.sess, rate |-> ctx.rate,
     status |-> status, body |-> body]

\* A response after db.commit() of `db`.
Commit(ctx, db, status, body) ==
    [db |-> db, sess |-> ctx.sess, rate |-> ctx.rate,
     status |-> status, body |-> body]

\* uid()
uid(ctx) == ctx.sess.user_id

\* Fault: a route without the decorator.
login_not_required(ctx) == TRUE

\* login_required: "user_id" in session
login_required(ctx) == uid(ctx) # NoUser

Unauthorized(ctx) == Reply(ctx, 401, [error |-> "Unauthorized"])
NotFound(ctx) == Reply(ctx, 404, [error |-> "Not found"])

\* cur.lastrowid of an INSERT into an AUTOINCREMENT table
NextId(db, t) == db.seq[t] + 1
Bump(db, t) == [db.seq EXCEPT ![t] = @ + 1]

\* ------------------------------------------------------------------- auth
\* Fault: the username kept as typed, without .lower().
register_as_typed(ctx, username_in, password) ==
    LET rl == _rate_limited(ctx.rate, ctx.key, ctx.now)
        c1 == [ctx EXCEPT !.rate = rl.store]
        username == _san(username_in, MAX_STR)
        id == ctx.db.seq["users"] + 1
    IN  IF rl.limited THEN Reply(c1, 429, [error |-> "Too many attempts"])
        ELSE IF ~UsernameOk(username) THEN Reply(c1, 400, [error |-> "Username"])
        ELSE IF Len(password) < MinPasswordLen \/ Len(password) > MaxPasswordLen
            THEN Reply(c1, 400, [error |-> "Password"])
        ELSE IF \E u \in ctx.db.users : u.username = username
            THEN Reply(c1, 409, [error |-> "Username already taken"])
        ELSE [db |-> [ctx.db EXCEPT
                        !.users = @ \cup {[id |-> id, username |-> username,
                                           password |-> generate_password_hash(password)]},
                        !.seq = [ctx.db.seq EXCEPT !["users"] = @ + 1]],
              sess |-> [user_id |-> id, username |-> username],
              rate |-> rl.store, status |-> 200,
              body |-> [ok |-> TRUE, username |-> username]]

\* POST /api/register
register(ctx, username_in, password) ==
    LET rl == _rate_limited(ctx.rate, ctx.key, ctx.now)
        c1 == [ctx EXCEPT !.rate = rl.store]
        username == lower(_san(username_in, MAX_STR))
        id == NextId(ctx.db, "users")
    IN  IF rl.limited THEN Reply(c1, 429, [error |-> "Too many attempts"])
        ELSE IF ~UsernameOk(username) THEN Reply(c1, 400, [error |-> "Username"])
        ELSE IF Len(password) < MinPasswordLen
            THEN Reply(c1, 400, [error |-> "Password short"])
        ELSE IF Len(password) > MaxPasswordLen
            THEN Reply(c1, 400, [error |-> "Password long"])
        ELSE IF \E u \in ctx.db.users : u.username = username
            THEN Reply(c1, 409, [error |-> "Username already taken"])
        ELSE [db |-> [ctx.db EXCEPT
                        !.users = @ \cup {[id |-> id, username |-> username,
                                           password |-> generate_password_hash(password)]},
                        !.seq = Bump(ctx.db, "users")],
              sess |-> [user_id |-> id, username |-> username],
              rate |-> rl.store, status |-> 200,
              body |-> [ok |-> TRUE, username |-> username]]

\* POST /api/login
login(ctx, username_in, password) ==
    LET rl == _rate_limited(ctx.rate, ctx.key, ctx.now)
        c1 == [ctx EXCEPT !.rate = rl.store]
        username == lower(_san(username_in, MAX_STR))
        found == {u \in ctx.db.users : u.username = username}
    IN  IF rl.limited THEN Reply(c1, 429, [error |-> "Too many attempts"])
        ELSE IF found = {} THEN Reply(c1, 401, [error |-> "Invalid credentials"])
        ELSE LET user == CHOOSE u \in found : TRUE
             IN  IF ~check_password_hash(user.password, password)
                 THEN Reply(c1, 401, [error |-> "Invalid credentials"])
                 ELSE [db |-> ctx.db,
                       sess |-> [user_id |-> user.id, username |-> user.username],
                       rate |-> rl.store, status |-> 200,
                       body |-> [ok |-> TRUE, username |-> user.username]]

\* POST /api/logout
logout(ctx) ==
    [db |-> ctx.db, sess |-> NoSession, rate |-> ctx.rate,
     status |-> 200, body |-> [ok |-> TRUE]]

\* GET /api/me
me(ctx) ==
    IF uid(ctx) # NoUser
    THEN Reply(ctx, 200, [logged_in |-> TRUE, username |-> ctx.sess.username])
    ELSE Reply(ctx, 200, [logged_in |-> FALSE, username |-> <<>>])

\* -------------------------------------------------------- SQL helpers
\* _owns_list(db, list_id): a row of lists with this id and user_id = uid()
_owns_list(ctx, list_id) ==
    \E l \in ctx.db.lists : l.id = list_id /\ l.user_id = uid(ctx)

\* "SELECT li.id FROM list_items li JOIN lists l ON l.id=li.list_id
\*  WHERE li.id=? AND l.user_id=?"
OwnsItem(ctx, iid) ==
    \E i \in ctx.db.list_items :
        /\ i.id = iid
        /\ \E l \in ctx.db.lists : l.id = i.list_id /\ l.user_id = uid(ctx)

\* the same with "AND li.list_id=?"
OwnsItemIn(ctx, lid, iid) ==
    \E i \in ctx.db.list_items :
        /\ i.id = iid /\ i.list_id = lid
        /\ \E l \in ctx.db.lists : l.id = lid /\ l.user_id = uid(ctx)

\* DELETE FROM list_items for the rows `gone`, with the ON DELETE CASCADE of
\* item_framework_data, item_tags and item_comments (foreign_keys=ON).
DeleteItems(db, gone) ==
    LET ids == {i.id : i \in gone}
    IN  [db EXCEPT
            !.list_items = @ \ gone,
            !.item_framework_data = {r \in @ : r.item_id \notin ids},
            !.item_tags = {r \in @ : r.item_id \notin ids},
            !.item_comments = {r \in @ : r.item_id \notin ids}]

\* Fault: foreign_keys left OFF, so that only the lists rows go.
DeleteListsRowOnly(db, gone) == [db EXCEPT !.lists = @ \ gone]

\* DELETE FROM lists for the rows `gone`, with the ON DELETE CASCADE of
\* list_items (and theirs), list_frameworks and list_shares.
DeleteLists(db, gone) ==
    LET ids == {l.id : l \in gone}
        d1 == DeleteItems(db, {i \in db.list_items : i.list_id \in ids})
    IN  [d1 EXCEPT
            !.lists = @ \ gone,
            !.list_frameworks = {r \in @ : r.list_id \notin ids},
            !.list_shares = {r \in @ : r.list_id \notin ids}]

\* DELETE FROM tags for the rows `gone`, with the cascade of item_tags.
DeleteTags(db, gone) ==
    LET ids == {t.id : t \in gone}
    IN  [db EXCEPT !.tags = @ \ gone,
                   !.item_tags = {r \in @ : r.tag_id \notin ids}]

\* ORDER BY sort_order, id.  With tie = -1 the rows of equal sort_order come
\* in descending id: ORDER BY sort_order alone leaves their order to SQLite.
RowBefore(a, b, tie) ==
    \/ a.sort_order < b.sort_order
    \/ a.sort_order = b.sort_order /\ tie * a.id < tie * b.id

RECURSIVE OrderBy(_, _)
OrderBy(rows, tie) ==
    IF rows = {} THEN <<>>
    ELSE LET m == CHOOSE x \in rows : \A y \in rows \ {x} : RowBefore(x, y, tie)
         IN  <<m>> \o OrderBy(rows \ {m}, tie)

ItemsOf(db, lid) == {i \in db.list_items : i.list_id = lid}

\* Fault: the next position taken from COUNT(*) instead of MAX(sort_order).
CountOrder(rows) == Cardinality(rows) - 1

\* COALESCE(MAX(sort_order),-1)+1
RECURSIVE MaxOrder(_)
MaxOrder(rows) ==
    IF rows = {} THEN -1
    ELSE LET x == CHOOSE r \in rows : TRUE
             m == MaxOrder(rows \ {x})
         IN  IF x.sort_order > m THEN x.sort_order ELSE m

Priorities == {"low", "medium", "high"}
\* the priority as sent, whatever it is
AnyPriority(p) == p

\* priority = d.get("priority") or "medium"; outside the enum: "medium"
NormPriority(p) == IF p \in Priorities THEN p ELSE "medium"

\* ------------------------------------------------------------ lists CRUD
\* GET /api/frameworks-catalog
frameworks_catalog(ctx) ==
    IF ~login_required(ctx) THEN Unauthorized(ctx)
    ELSE Reply(ctx, 200, FRAMEWORKS)

\* GET /api/lists
get_lists(ctx) ==
    IF ~login_required(ctx) THEN Unauthorized(ctx)
    ELSE Reply(ctx, 200,
          {[list |-> l,
            item_count |-> Cardinality(ItemsOf(ctx.db, l.id)),
            completed_count |->
                Cardinality({i \in ItemsOf(ctx.db, l.id) : i.completed = 1}),
            frameworks |-> {f.framework_key :
                            f \in {r \in ctx.db.list_frameworks : r.list_id = l.id}},
            shared |-> FALSE]
           : l \in {x \in ctx.db.lists : x.user_id = uid(ctx)}})

\* POST /api/lists
create_list(ctx, name_in, desc_in) ==
    LET name == _san(name_in, MAX_STR)
        desc == _san_text(desc_in)
        id == NextId(ctx.db, "lists")
    IN  IF ~login_required(ctx) THEN Unauthorized(ctx)
        ELSE IF name = <<>> THEN Reply(ctx, 400, [error |-> "List name is required"])
        ELSE Commit(ctx,
                [ctx.db EXCEPT
                    !.lists = @ \cup {[id |-> id, user_id |-> uid(ctx),
                                       name |-> name, description |-> desc]},
                    !.seq = Bump(ctx.db, "lists")],
                201, [ok |-> TRUE, id |-> id])

\* PUT /api/lists/<lid>
update_list(ctx, lid, name_in, desc_in) ==
    IF ~login_required(ctx) THEN Unauthorized(ctx)
    ELSE Commit(ctx,
            [ctx.db EXCEPT !.lists =
                {IF l.id = lid /\ l.user_id = uid(ctx)
                 THEN [l EXCEPT !.name = _san(name_in, MAX_STR),
                                !.description = _san_text(desc_in)]
                 ELSE l : l \in @}],
            200, [ok |-> TRUE])

\* DELETE /api/lists/<lid>
delete_list(ctx, lid) ==
    IF ~login_required(ctx) THEN Unauthorized(ctx)
    ELSE Commit(ctx,
            DeleteLists(ctx.db,
                {l \in ctx.db.lists : l.id = lid /\ l.user_id = uid(ctx)}),
            200, [ok |-> TRUE])

\* ------------------------------------------------------------ items CRUD
\* GET /api/lists/<lid>/items
get_items(ctx, lid) ==
    IF ~login_required(ctx) THEN Unauthorized(ctx)
    ELSE IF ~_owns_list(ctx, lid) THEN NotFound(ctx)
    ELSE LET rows == OrderBy(ItemsOf(ctx.db, lid), 1)
         IN  Reply(ctx, 200,
                [k \in 1..Len(rows) |->
                    [item |-> rows[k],
                     tags |-> {t \in ctx.db.tags :
                               [item_id |-> rows[k].id, tag_id |-> t.id] \in ctx.db.item_tags}]])

\* POST /api/lists/<lid>/items
create_item(ctx, lid, d) ==
    LET title == _san(d.title, MAX_STR)
        id == NextId(ctx.db, "list_items")
        nxt == MaxOrder(ItemsOf(ctx.db, lid)) + 1
    IN  IF ~login_required(ctx) THEN Unauthorized(ctx)
        ELSE IF ~_owns_list(ctx, lid) THEN NotFound(ctx)
        ELSE IF title = <<>> THEN Reply(ctx, 400, [error |-> "Title is required"])
        ELSE Commit(ctx,
                [ctx.db EXCEPT
                    !.list_items = @ \cup
                        {[id |-> id, list_id |-> lid, title |-> title,
                          description |-> _san_text(d.description),
                          sort_order |-> nxt,
                          due_date |-> _valid_date(d.due_date),
                          priority |-> NormPriority(d.priority),
                          completed |-> 0]},
                    !.seq = Bump(ctx.db, "list_items")],
                201, [ok |-> TRUE, id |-> id])

\* PUT /api/lists/<lid>/items/<iid>
update_item(ctx, lid, iid, d) ==
    LET title == _san(d.title, MAX_STR)
    IN  IF ~login_required(ctx) THEN Unauthorized(ctx)
        ELSE IF ~OwnsItemIn(ctx, lid, iid) THEN NotFound(ctx)
        ELSE IF title = <<>> THEN Reply(ctx, 400, [error |-> "Title is required"])
        ELSE Commit(ctx,
                [ctx.db EXCEPT !.list_items =
                    {IF i.id = iid
                     THEN [i EXCEPT !.title = title,
                                    !.description = _san_text(d.description),
                                    !.due_date = _valid_date(d.due_date),
                                    !.priority = NormPriority(d.priority)]
                     ELSE i : i \in @}],
                200, [ok |-> TRUE])

\* DELETE /api/lists/<lid>/items/<iid>
delete_item(ctx, lid, iid) ==
    IF ~login_required(ctx) THEN Unauthorized(ctx)
    ELSE Commit(ctx,
            DeleteItems(ctx.db,
                {i \in ctx.db.list_items :
                    /\ i.id = iid /\ i.list_id = lid
                    /\ \E l \in ctx.db.lists :
                          l.id = i.list_id /\ l.user_id = uid(ctx)}),
            200, [ok |-> TRUE])

\* Fault: toggle marks the item completed instead of flipping it.
toggle_item_set(ctx, lid, iid) ==
    IF ~login_required(ctx) THEN Unauthorized(ctx)
    ELSE IF ~OwnsItemIn(ctx, lid, iid) THEN NotFound(ctx)
    ELSE Commit(ctx,
            [ctx.db EXCEPT !.list_items =
                {IF i.id = iid THEN [i EXCEPT !.completed = 1] ELSE i : i \in @}],
            200, [ok |-> TRUE, completed |-> 1])

\* PUT /api/lists/<lid>/items/<iid>/toggle
toggle_item(ctx, lid, iid) ==
    IF ~login_required(ctx) THEN Unauthorized(ctx)
    ELSE IF ~OwnsItemIn(ctx, lid, iid) THEN NotFound(ctx)
    ELSE LET item == CHOOSE i \in ctx.db.list_items : i.id = iid
             new_val == IF item.completed # 0 THEN 0 ELSE 1
         IN  Commit(ctx,
                [ctx.db EXCEPT !.list_items =
                    {IF i.id = iid THEN [i EXCEPT !.completed = new_val] ELSE i
                     : i \in @}],
                200, [ok |-> TRUE, completed |-> new_val])

\* Fault: the loop's UPDATE matches no row.
ReorderNothing(rows, lid, order, k) == rows

\* for idx, item_id in enumerate(order):
\*     UPDATE list_items SET sort_order=idx WHERE id=item_id AND list_id=lid
RECURSIVE ReorderFrom(_, _, _, _)
ReorderFrom(rows, lid, order, k) ==
    IF k > Len(order) THEN rows
    ELSE ReorderFrom(
            {IF i.id = order[k] /\ i.list_id = lid
             THEN [i EXCEPT !.sort_order = k - 1] ELSE i : i \in rows},
            lid, order, k + 1)

MaxBatch == 500

\* PUT /api/lists/<lid>/items/reorder  (order: a list of ints)
reorder_items(ctx, lid, order) ==
    IF ~login_required(ctx) THEN Unauthorized(ctx)
    ELSE IF ~_owns_list(ctx, lid) THEN NotFound(ctx)
    ELSE IF Len(order) > MaxBatch THEN Reply(ctx, 400, [error |-> "Invalid order"])
    ELSE Commit(ctx,
            [ctx.db EXCEPT !.list_items = ReorderFrom(@, lid, order, 1)],
            200, [ok |-> TRUE])

\* POST /api/lists/<lid>/items/bulk-delete  (ids: the set of the list's entries)
bulk_delete_items(ctx, lid, ids) ==
    IF ~login_required(ctx) THEN Unauthorized(ctx)
    ELSE IF ~_owns_list(ctx, lid) THEN NotFound(ctx)
    ELSE IF Cardinality(ids) > MaxBatch THEN Reply(ctx, 400, [error |-> "Invalid ids"])
    ELSE Commit(ctx,
            DeleteItems(ctx.db,
                {i \in ctx.db.list_items : i.id \in ids /\ i.list_id = lid}),
            200, [ok |-> TRUE])

\* bulk_move_items without the ownership check of the target list.
bulk_move_items_any_target(ctx, lid, ids, target_list_id) ==
    IF ~login_required(ctx) THEN Unauthorized(ctx)
    ELSE IF ~_owns_list(ctx, lid) THEN NotFound(ctx)
    ELSE IF Cardinality(ids) > MaxBatch THEN Reply(ctx, 400, [error |-> "Invalid ids"])
    ELSE Commit(ctx,
            [ctx.db EXCEPT !.list_items =
                {IF i.id \in ids /\ i.list_id = lid
                 THEN [i EXCEPT !.list_id = target_list_id] ELSE i : i \in @}],
            200, [ok |-> TRUE])

\* POST /api/lists/<lid>/items/bulk-move
bulk_move_items(ctx, lid, ids, target_list_id) ==
    IF ~login_required(ctx) THEN Unauthorized(ctx)
    ELSE IF ~_owns_list(ctx, lid) THEN NotFound(ctx)
    ELSE IF Cardinality(ids) > MaxBatch THEN Reply(ctx, 400, [error |-> "Invalid ids"])
    ELSE IF ~_owns_list(ctx, target_list_id)
        THEN Reply(ctx, 404, [error |-> "Target list not found"])
    ELSE Commit(ctx,
            [ctx.db EXCEPT !.list_items =
                {IF i.id \in ids /\ i.list_id = lid
                 THEN [i EXCEPT !.list_id = target_list_id] ELSE i : i \in @}],
            200, [ok |-> TRUE])

\* -------------------------------------------------------- list frameworks
\* GET /api/lists/<lid>/frameworks
get_list_frameworks(ctx, lid) ==
    IF ~login_required(ctx) THEN Unauthorized(ctx)
    ELSE IF ~_owns_list(ctx, lid) THEN NotFound(ctx)
    ELSE Reply(ctx, 200,
            {r.framework_key : r \in {x \in ctx.db.list_frameworks : x.list_id = lid}})

\* Fault: list_frameworks without its UNIQUE(list_id, framework_key).
InsertListFrameworkAgain(db, lid, key) ==
    [db EXCEPT
        !.list_frameworks = @ \cup
            {[id |-> db.seq["list_frameworks"] + 1, list_id |-> lid,
              framework_key |-> key]},
        !.seq = [db.seq EXCEPT !["list_frameworks"] = @ + 1]]

\* INSERT INTO list_frameworks (list_id, framework_key): UNIQUE(list_id,
\* framework_key) raises sqlite3.IntegrityError, which both callers swallow.
InsertListFramework(db, lid, key) ==
    IF \E r \in db.list_frameworks : r.list_id = lid /\ r.framework_key = key
    THEN db
    ELSE [db EXCEPT
            !.list_frameworks = @ \cup
                {[id |-> NextId(db, "list_frameworks"), list_id |-> lid,
                  framework_key |-> key]},
            !.seq = Bump(db, "list_frameworks")]

\* POST /api/lists/<lid>/frameworks
add_list_framework(ctx, lid, key) ==
    IF ~login_required(ctx) THEN Unauthorized(ctx)
    ELSE IF key \notin FRAMEWORKS THEN Reply(ctx, 400, [error |-> "Invalid framework"])
    ELSE IF ~_owns_list(ctx, lid) THEN NotFound(ctx)
    ELSE Commit(ctx, InsertListFramework(ctx.db, lid, key), 201, [ok |-> TRUE])

\* Fault: the data rows of the key go on the items of every list.
remove_list_framework_everywhere(ctx, lid, key) ==
    IF ~login_required(ctx) THEN Unauthorized(ctx)
    ELSE IF ~_owns_list(ctx, lid) THEN NotFound(ctx)
    ELSE Commit(ctx,
            [ctx.db EXCEPT
                !.list_frameworks =
                    {r \in @ : ~(r.list_id = lid /\ r.framework_key = key)},
                !.item_framework_data = {r \in @ : r.framework_key # key}],
            200, [ok |-> TRUE])

\* DELETE /api/lists/<lid>/frameworks/<key>
remove_list_framework(ctx, lid, key) ==
    IF ~login_required(ctx) THEN Unauthorized(ctx)
    ELSE IF ~_owns_list(ctx, lid) THEN NotFound(ctx)
    ELSE LET in_list == {i.id : i \in ItemsOf(ctx.db, lid)}
         IN  Commit(ctx,
                [ctx.db EXCEPT
                    !.list_frameworks =
                        {r \in @ : ~(r.list_id = lid /\ r.framework_key = key)},
                    !.item_framework_data =
                        {r \in @ : ~(r.framework_key = key /\ r.item_id \in in_list)}],
                200, [ok |-> TRUE])

\* ---------------------------------------------------- item framework data
\* GET /api/lists/<lid>/framework-data/<key>
get_framework_data(ctx, lid, key) ==
    IF ~login_required(ctx) THEN Unauthorized(ctx)
    ELSE IF ~_owns_list(ctx, lid) THEN NotFound(ctx)
    ELSE Reply(ctx, 200,
            {[item_id |-> r.item_id, data |-> r.data_json,
              title |-> (CHOOSE i \in ctx.db.list_items : i.id = r.item_id).title,
              description |->
                (CHOOSE i \in ctx.db.list_items : i.id = r.item_id).description]
             : r \in {x \in ctx.db.item_framework_data :
                        /\ x.framework_key = key
                        /\ \E i \in ctx.db.list_items :
                              i.id = x.item_id /\ i.list_id = lid}})

\* INSERT INTO item_framework_data ... ON CONFLICT(item_id, framework_key)
\* DO UPDATE SET data_json=excluded.data_json
Upsert(db, iid, key, data) ==
    IF \E r \in db.item_framework_data : r.item_id = iid /\ r.framework_key = key
    THEN [db EXCEPT !.item_framework_data =
            {IF r.item_id = iid /\ r.framework_key = key
             THEN [r EXCEPT !.data_json = data] ELSE r : r \in @}]
    ELSE [db EXCEPT
            !.item_framework_data = @ \cup
                {[id |-> NextId(db, "item_framework_data"), item_id |-> iid,
                  framework_key |-> key, data_json |-> data]},
            !.seq = Bump(db, "item_framework_data")]

\* PUT /api/items/<iid>/framework-data/<key>
update_framework_data(ctx, iid, key, data) ==
    IF ~login_required(ctx) THEN Unauthorized(ctx)
    ELSE IF ~OwnsItem(ctx, iid) THEN NotFound(ctx)
    ELSE Commit(ctx, Upsert(ctx.db, iid, key, data), 200, [ok |-> TRUE])

\* for iid_str, idata in items.items(): the upserts, one statement after
\* another in the transaction that the first of them opens.  An item id with
\* no row in list_items fails the FOREIGN KEY of item_id and the loop ends
\* there with sqlite3.IntegrityError: [db as the transaction sees it, failed].
RECURSIVE UpsertAll(_, _, _)
UpsertAll(db, key, items) ==
    IF DOMAIN items = {} THEN [db |-> db, failed |-> FALSE]
    ELSE LET iid == CHOOSE x \in DOMAIN items : \A y \in DOMAIN items : x <= y
         IN  IF \A i \in db.list_items : i.id # iid
             THEN [db |-> db, failed |-> TRUE]
             ELSE UpsertAll(Upsert(db, iid, key, items[iid]), key,
                            [x \in DOMAIN items \ {iid} |-> items[x]])

\* batch_update_framework_data on a connection in autocommit mode: what the
\* loop wrote before it failed stays.
batch_update_framework_data_autocommit(ctx, lid, key, items) ==
    IF ~login_required(ctx) THEN Unauthorized(ctx)
    ELSE IF ~_owns_list(ctx, lid) THEN NotFound(ctx)
    ELSE LET tx == UpsertAll(ctx.db, key, items)
         IN  IF tx.failed
             THEN Commit(ctx, tx.db, 500, [error |-> "Internal server error"])
             ELSE Commit(ctx, tx.db, 200, [ok |-> TRUE])

\* PUT /api/lists/<lid>/framework-data/<key>/batch  (items: item id -> data).
\* The exception of a failed statement is not caught: _server_error answers
\* 500, db.commit() is never reached and close_db closes the connection, so
\* nothing of the transaction is kept.
batch_update_framework_data(ctx, lid, key, items) ==
    IF ~login_required(ctx) THEN Unauthorized(ctx)
    ELSE IF ~_owns_list(ctx, lid) THEN NotFound(ctx)
    ELSE LET tx == UpsertAll(ctx.db, key, items)
         IN  IF tx.failed
             THEN Reply(ctx, 500, [error |-> "Internal server error"])
             ELSE Commit(ctx, tx.db, 200, [ok |-> TRUE])

\* ------------------------------------------------------------------- tags
DefaultColor == <<"#","6","3","6","6","f","1">>
HexDigits == Digits \cup {"a","b","c","d","e","f","A","B","C","D","E","F"}
\* re.match(r'^#[0-9a-fA-F]{6}$', color)
ColorOk(c) == Len(c) = 7 /\ c[1] = "#" /\ \A i \in 2..7 : c[i] \in HexDigits

\* GET /api/tags
get_tags(ctx) ==
    IF ~login_required(ctx) THEN Unauthorized(ctx)
    ELSE Reply(ctx, 200, {t \in ctx.db.tags : t.user_id = uid(ctx)})

\* POST /api/tags
create_tag(ctx, name_in, color_in) ==
    LET name == _san(name_in, MAX_STR)
        color0 == IF color_in = <<>> THEN DefaultColor ELSE color_in
        color == IF ColorOk(color0) THEN color0 ELSE DefaultColor
        id == NextId(ctx.db, "tags")
    IN  IF ~login_required(ctx) THEN Unauthorized(ctx)
        ELSE IF name = <<>> THEN Reply(ctx, 400, [error |-> "Tag name is required"])
        ELSE IF \E t \in ctx.db.tags : t.user_id = uid(ctx) /\ t.name = name
            THEN Reply(ctx, 409, [error |-> "Tag already exists"])
        ELSE Commit(ctx,
                [ctx.db EXCEPT
                    !.tags = @ \cup {[id |-> id, user_id |-> uid(ctx),
                                      name |-> name, color |-> color]},
                    !.seq = Bump(ctx.db, "tags")],
                201, [ok |-> TRUE, id |-> id])

\* DELETE /api/tags/<tid>
delete_tag(ctx, tid) ==
    IF ~login_required(ctx) THEN Unauthorized(ctx)
    ELSE Commit(ctx,
            DeleteTags(ctx.db, {t \in ctx.db.tags : t.id = tid /\ t.user_id = uid(ctx)}),
            200, [ok |-> TRUE])

\* POST /api/items/<iid>/tags/<tid>
add_item_tag(ctx, iid, tid) ==
    IF ~login_required(ctx) THEN Unauthorized(ctx)
    ELSE IF ~OwnsItem(ctx, iid) THEN NotFound(ctx)
    ELSE IF ~\E t \in ctx.db.tags : t.id = tid /\ t.user_id = uid(ctx)
        THEN Reply(ctx, 404, [error |-> "Tag not found"])
    ELSE Commit(ctx, [ctx.db EXCEPT !.item_tags = @ \cup {[item_id |-> iid, tag_id |-> tid]}],
                200, [ok |-> TRUE])

\* DELETE /api/items/<iid>/tags/<tid>
remove_item_tag(ctx, iid, tid) ==
    IF ~login_required(ctx) THEN Unauthorized(ctx)
    ELSE IF ~OwnsItem(ctx, iid) THEN NotFound(ctx)
    ELSE Commit(ctx, [ctx.db EXCEPT !.item_tags = @ \ {[item_id |-> iid, tag_id |-> tid]}],
                200, [ok |-> TRUE])

\* --------------------------------------------------------------- comments
\* GET /api/items/<iid>/comments
get_comments(ctx, iid) ==
    IF ~login_required(ctx) THEN Unauthorized(ctx)
    ELSE IF ~OwnsItem(ctx, iid) THEN NotFound(ctx)
    ELSE Reply(ctx, 200,
            {[comment |-> c,
              username |-> (CHOOSE u \in ctx.db.users : u.id = c.user_id).username]
             : c \in {x \in ctx.db.item_comments : x.item_id = iid}})

\* POST /api/items/<iid>/comments.  No ownership query precedes the INSERT;
\* an iid with no row in list_items fails the FOREIGN KEY of item_id (an
\* uncaught sqlite3.IntegrityError: 500, nothing committed).
add_comment(ctx, iid, content_in) ==
    LET content == _san_text(content_in)
        id == NextId(ctx.db, "item_comments")
    IN  IF ~login_required(ctx) THEN Unauthorized(ctx)
        ELSE IF content = <<>> THEN Reply(ctx, 400, [error |-> "Comment cannot be empty"])
        ELSE IF \A i \in ctx.db.list_items : i.id # iid
            THEN Reply(ctx, 500, [error |-> "Internal server error"])
        ELSE Commit(ctx,
                [ctx.db EXCEPT
                    !.item_comments = @ \cup
                        {[id |-> id, item_id |-> iid, user_id |-> uid(ctx),
                          content |-> content]},
                    !.seq = Bump(ctx.db, "item_comments")],
                201, [ok |-> TRUE, id |-> id])

\* DELETE /api/comments/<cid>
delete_comment(ctx, cid) ==
    IF ~login_required(ctx) THEN Unauthorized(ctx)
    ELSE Commit(ctx,
            [ctx.db EXCEPT !.item_comments =
                {c \in @ : ~(c.id = cid /\ c.user_id = uid(ctx))}],
            200, [ok |-> TRUE])

\* -------------------------------------------------------------- dashboard
\* GET /api/dashboard.  overdue_items and recent_items compare with the
\* clock's date and created_at; they are not part of the modelled body.
dashboard(ctx) ==
    LET mine == {l \in ctx.db.lists : l.user_id = uid(ctx)}
        items == {i \in ctx.db.list_items : \E l \in mine : l.id = i.list_id}
        done == {i \in items : i.completed = 1}
        total == Cardinality(items)
    IN  IF ~login_required(ctx) THEN Unauthorized(ctx)
        ELSE Reply(ctx, 200,
            [total_lists |-> Cardinality(mine),
             total_items |-> total,
             completed_items |-> Cardinality(done),
             high_priority |->
                Cardinality({i \in items : i.priority = "high" /\ i.completed = 0}),
             framework_usage |->
                [k \in {r.framework_key :
                        r \in {x \in ctx.db.list_frameworks :
                               \E l \in mine : l.id = x.list_id}} |->
                    Cardinality({x \in ctx.db.list_frameworks :
                        x.framework_key = k /\ \E l \in mine : l.id = x.list_id})],
             \* round(completed / total * 100, 1), in tenths of a percent
             completion_rate_x10 |->
                IF total = 0 THEN 0
                ELSE (Cardinality(done) * 2000 + total) \div (2 * total)])

\* ---------------------------------------------------------- export/import
MaxImportItems == 1000
ImportedListName == <<"I","m","p","o","r","t","e","d"," ","L","i","s","t">>

\* SELECT framework_key FROM list_frameworks WHERE list_id=?, in rowid order
RECURSIVE KeysInIdOrder(_)
KeysInIdOrder(rows) ==
    IF rows = {} THEN <<>>
    ELSE LET m == CHOOSE x \in rows : \A y \in rows : x.id <= y.id
         IN  <<m.framework_key>> \o KeysInIdOrder(rows \ {m})
FrameworkKeys(db, lid) ==
    KeysInIdOrder({x \in db.list_frameworks : x.list_id = lid})

\* GET /api/lists/<lid>/export?format=.  Items come ORDER BY sort_order; `tie`
\* is the order SQLite gives rows of equal sort_order.  The JSON body holds
\* the item rows with all their columns; the CSV body five columns of each.
export_list(ctx, lid, format, tie) ==
    IF ~login_required(ctx) THEN Unauthorized(ctx)
    ELSE IF ~_owns_list(ctx, lid) THEN NotFound(ctx)
    ELSE LET lst == CHOOSE l \in ctx.db.lists : l.id = lid
             items == OrderBy(ItemsOf(ctx.db, lid), tie)
             fw == FrameworkKeys(ctx.db, lid)
             fmt == IF format \in {"json", "csv"} THEN format ELSE "json"
         IN  IF fmt = "csv"
             THEN Reply(ctx, 200,
                    [k \in 1..Len(items) |->
                        <<items[k].title, items[k].description, items[k].priority,
                          items[k].due_date, items[k].completed>>])
             ELSE Reply(ctx, 200,
                    [name |-> lst.name, description |-> lst.description,
                     frameworks |-> fw, items |-> items])

\* for idx, item in enumerate(items): skip the untitled, INSERT the rest
RECURSIVE ImportItems(_, _, _, _)
ImportItems(db, lid, items, k) ==
    IF k > Len(items) THEN db
    ELSE LET item == items[k]
             title == _san(item.title, MAX_STR)
         IN  IF title = <<>> THEN ImportItems(db, lid, items, k + 1)
             ELSE ImportItems(
                    [db EXCEPT
                        !.list_items = @ \cup
                            {[id |-> NextId(db, "list_items"), list_id |-> lid,
                              title |-> title,
                              description |-> _san_text(item.description),
                              sort_order |-> k - 1,
                              due_date |-> _valid_date(item.due_date),
                              priority |-> NormPriority(item.priority),
                              completed |-> IF item.completed # 0 THEN 1 ELSE 0]},
                        !.seq = Bump(db, "list_items")],
                    lid, items, k + 1)

\* for fk in frameworks: if fk in FRAMEWORKS: INSERT (IntegrityError passed over)
RECURSIVE ImportFrameworks(_, _, _, _)
ImportFrameworks(db, lid, keys, k) ==
    IF k > Len(keys) THEN db
    ELSE ImportFrameworks(
            IF keys[k] \in FRAMEWORKS THEN InsertListFramework(db, lid, keys[k]) ELSE db,
            lid, keys, k + 1)

\* POST /api/lists/import  (d: name, description, items, frameworks)
import_list(ctx, d) ==
    LET name == _san(IF d.name = <<>> THEN ImportedListName ELSE d.name, MAX_STR)
        desc == _san_text(d.description)
        lid == NextId(ctx.db, "lists")
        d1 == [ctx.db EXCEPT
                !.lists = @ \cup {[id |-> lid, user_id |-> uid(ctx),
                                   name |-> name, description |-> desc]},
                !.seq = Bump(ctx.db, "lists")]
        d2 == ImportItems(d1, lid, d.items, 1)
        d3 == ImportFrameworks(d2, lid, d.frameworks, 1)
    IN  IF ~login_required(ctx) THEN Unauthorized(ctx)
        ELSE IF Len(d.items) > MaxImportItems
            THEN Reply(ctx, 400, [error |-> "Too many items"])
        ELSE Commit(ctx, d3, 201, [ok |-> TRUE, id |-> lid])

\* ---------------------------------------------------------------- sharing
SharePermissions == {"view", "edit"}

\* Fault: the IntegrityError passed over, as the framework inserts do.
InsertOrIgnoreShare(db, lid, owner, with, permission) ==
    IF \E r \in db.list_shares : r.list_id = lid /\ r.shared_with_id = with
    THEN db
    ELSE [db EXCEPT
            !.list_shares = @ \cup
                {[id |-> db.seq["list_shares"] + 1, list_id |-> lid,
                  owner_id |-> owner, shared_with_id |-> with,
                  permission |-> permission]},
            !.seq = [db.seq EXCEPT !["list_shares"] = @ + 1]]

\* INSERT INTO list_shares ...; on the IntegrityError of UNIQUE(list_id,
\* shared_with_id): UPDATE list_shares SET permission=? for that pair.
InsertOrUpdateShare(db, lid, owner, with, permission) ==
    IF \E r \in db.list_shares : r.list_id = lid /\ r.shared_with_id = with
    THEN [db EXCEPT !.list_shares =
            {IF r.list_id = lid /\ r.shared_with_id = with
             THEN [r EXCEPT !.permission = permission] ELSE r : r \in @}]
    ELSE [db EXCEPT
            !.list_shares = @ \cup
                {[id |-> NextId(db, "list_shares"), list_id |-> lid,
                  owner_id |-> owner, shared_with_id |-> with,
                  permission |-> permission]},
            !.seq = Bump(db, "list_shares")]

\* POST /api/lists/<lid>/share
share_list(ctx, lid, username_in, permission_in) ==
    LET username == lower(_san(username_in, MAX_STR))
        permission == IF permission_in \in SharePermissions THEN permission_in ELSE "view"
        found == {u \in ctx.db.users : u.username = username}
    IN  IF ~login_required(ctx) THEN Unauthorized(ctx)
        ELSE IF ~_owns_list(ctx, lid) THEN NotFound(ctx)
        ELSE IF found = {} THEN Reply(ctx, 404, [error |-> "User not found"])
        ELSE LET user == CHOOSE u \in found : TRUE
             IN  IF user.id = uid(ctx)
                 THEN Reply(ctx, 400, [error |-> "Cannot share with yourself"])
                 ELSE Commit(ctx,
                        InsertOrUpdateShare(ctx.db, lid, uid(ctx), user.id, permission),
                        200, [ok |-> TRUE])

\* GET /api/lists/<lid>/share
get_shares(ctx, lid) ==
    IF ~login_required(ctx) THEN Unauthorized(ctx)
    ELSE Reply(ctx, 200,
            {[share |-> r,
              username |-> (CHOOSE u \in ctx.db.users : u.id = r.shared_with_id).username]
             : r \in {x \in ctx.db.list_shares :
                        x.list_id = lid /\ x.owner_id = uid(ctx)}})

\* DELETE /api/lists/<lid>/share/<sid>
remove_share(ctx, lid, sid) ==
    IF ~login_required(ctx) THEN Unauthorized(ctx)
    ELSE Commit(ctx,
            [ctx.db EXCEPT !.list_shares =
                {r \in @ : ~(r.id = sid /\ r.list_id = lid /\ r.owner_id = uid(ctx))}],
            200, [ok |-> TRUE])

\* GET /api/shared-lists
get_shared_lists(ctx) ==
    IF ~login_required(ctx) THEN Unauthorized(ctx)
    ELSE Reply(ctx, 200,
            {[list |-> (CHOOSE l \in ctx.db.lists : l.id = r.list_id),
              permission |-> r.permission,
              owner_name |-> (CHOOSE u \in ctx.db.users : u.id = r.owner_id).username,
              item_count |-> Cardinality(ItemsOf(ctx.db, r.list_id)),
              shared |-> TRUE]
             : r \in {x \in ctx.db.list_shares : x.shared_with_id = uid(ctx)}})

\* -------------------------------------------------------------- templates
\* GET /api/templates
get_templates(ctx) ==
    IF ~login_required(ctx) THEN Unauthorized(ctx)
    ELSE Reply(ctx, 200, {t \in ctx.db.list_templates : t.user_id = uid(ctx)})

\* POST /api/lists/<lid>/save-template.  items_json is the array json.dumps
\* writes and json.loads reads back; `tie` as in export_list.
save_template(ctx, lid, name_in, tie) ==
    LET name == _san(name_in, MAX_STR)
        id == NextId(ctx.db, "list_templates")
    IN  IF ~login_required(ctx) THEN Unauthorized(ctx)
        ELSE IF ~_owns_list(ctx, lid) THEN NotFound(ctx)
        ELSE IF name = <<>> THEN Reply(ctx, 400, [error |-> "Template name required"])
        ELSE LET lst == CHOOSE l \in ctx.db.lists : l.id = lid
                 rows == OrderBy(ItemsOf(ctx.db, lid), tie)
                 items == [k \in 1..Len(rows) |->
                            [title |-> rows[k].title,
                             description |-> rows[k].description,
                             priority |-> rows[k].priority]]
             IN  Commit(ctx,
                    [ctx.db EXCEPT
                        !.list_templates = @ \cup
                            {[id |-> id, user_id |-> uid(ctx), name |-> name,
                              description |-> lst.description, items_json |-> items]},
                        !.seq = Bump(ctx.db, "list_templates")],
                    201, [ok |-> TRUE, id |-> id])

\* for idx, item in enumerate(items): INSERT INTO list_items (list_id, title,
\* description, sort_order, priority); due_date and completed take defaults.
RECURSIVE TemplateItems(_, _, _, _)
TemplateItems(db, lid, items, k) ==
    IF k > Len(items) THEN db
    ELSE TemplateItems(
            [db EXCEPT
                !.list_items = @ \cup
                    {[id |-> NextId(db, "list_items"), list_id |-> lid,
                      title |-> items[k].title,
                      description |-> items[k].description,
                      sort_order |-> k - 1, due_date |-> NoDate,
                      priority |-> items[k].priority, completed |-> 0]},
                !.seq = Bump(db, "list_items")],
            lid, items, k + 1)

\* POST /api/templates/<tid>/create-list
create_from_template(ctx, tid, name_in) ==
    LET found == {t \in ctx.db.list_templates : t.id = tid /\ t.user_id = uid(ctx)}
    IN  IF ~login_required(ctx) THEN Unauthorized(ctx)
        ELSE IF found = {} THEN Reply(ctx, 404, [error |-> "Template not found"])
        ELSE LET tmpl == CHOOSE t \in found : TRUE
                 name == _san(IF name_in = <<>> THEN tmpl.name ELSE name_in, MAX_STR)
                 lid == NextId(ctx.db, "lists")
                 d1 == [ctx.db EXCEPT
                         !.lists = @ \cup {[id |-> lid, user_id |-> uid(ctx),
                                            name |-> name,
                                            description |-> tmpl.description]},
                         !.seq = Bump(ctx.db, "lists")]
             IN  Commit(ctx, TemplateItems(d1, lid, tmpl.items_json, 1),
                        201, [ok |-> TRUE, id |-> lid])

\* DELETE /api/templates/<tid>
delete_template(ctx, tid) ==
    IF ~login_required(ctx) THEN Unauthorized(ctx)
    ELSE Commit(ctx,
            [ctx.db EXCEPT !.list_templates =
                {t \in @ : ~(t.id = tid /\ t.user_id = uid(ctx))}],
            200, [ok |-> TRUE])

\* ------------------------------------------------------- page and health
\* GET /
index(ctx) == Reply(ctx, 200, [page |-> "index.html"])

\* GET /health
health_check(ctx) == Reply(ctx, 200, [status |-> "healthy"])

\* ================================================================ requests
\* A scenario P bounds what the clients send: P.cap[t] rows ever inserted in
\* table t, P.auth register/login requests per address, and the texts, item
\* bodies, framework keys and import documents the requests are drawn from.
Max(a, b) == IF a > b THEN a ELSE b
Ids(P, t) == 1..Max(1, P.cap[t])
Formats == {"json", "csv", "xml"}
Ties == {1, -1}
PermissionInputs == {"view", "edit", "admin"}
ColorInputs == {<<>>, <<"#","0","0","f","f","0","0">>, <<"r","e","d">>}

\* every list of at most n entries over S
RECURSIVE SeqsUpTo(_, _)
SeqsUpTo(S, n) ==
    IF n = 0 THEN {<<>>}
    ELSE LET shorter == SeqsUpTo(S, n - 1)
         IN  shorter \cup {Append(q, x) : q \in shorter, x \in S}

ReqRegister(P) == [op : {"register"}, username : P.usernames, password : P.passwords]
ReqLogin(P) == [op : {"login"}, username : P.usernames, password : P.passwords]
ReqLogout(P) == [op : {"logout"}]
ReqMe(P) == [op : {"me"}]
ReqIndex(P) == [op : {"index"}]
ReqHealthCheck(P) == [op : {"health_check"}]
ReqFrameworksCatalog(P) == [op : {"frameworks_catalog"}]
ReqGetLists(P) == [op : {"get_lists"}]
ReqCreateList(P) == [op : {"create_list"}, name : P.texts, description : P.descs]
ReqUpdateList(P) ==
    [op : {"update_list"}, lid : Ids(P, "lists"), name : P.texts, description : P.descs]
ReqDeleteList(P) == [op : {"delete_list"}, lid : Ids(P, "lists")]
ReqGetItems(P) == [op : {"get_items"}, lid : Ids(P, "lists")]
ReqCreateItem(P) == [op : {"create_item"}, lid : Ids(P, "lists"), d : P.items]
ReqUpdateItem(P) ==
    [op : {"update_item"}, lid : Ids(P, "lists"), iid : Ids(P, "list_items"), d : P.items]
ReqDeleteItem(P) ==
    [op : {"delete_item"}, lid : Ids(P, "lists"), iid : Ids(P, "list_items")]
ReqToggleItem(P) ==
    [op : {"toggle_item"}, lid : Ids(P, "lists"), iid : Ids(P, "list_items")]
ReqReorderItems(P) ==
    [op : {"reorder_items"}, lid : Ids(P, "lists"),
     order : SeqsUpTo(Ids(P, "list_items"), P.cap["list_items"])]
ReqBulkDeleteItems(P) ==
    [op : {"bulk_delete_items"}, lid : Ids(P, "lists"),
     ids : SUBSET Ids(P, "list_items")]
ReqBulkMoveItems(P) ==
    [op : {"bulk_move_items"}, lid : Ids(P, "lists"),
     ids : SUBSET Ids(P, "list_items"), target_list_id : {0} \cup Ids(P, "lists")]
ReqGetListFrameworks(P) == [op : {"get_list_frameworks"}, lid : Ids(P, "lists")]
ReqAddListFramework(P) ==
    [op : {"add_list_framework"}, lid : Ids(P, "lists"), key : P.keys]
ReqRemoveListFramework(P) ==
    [op : {"remove_list_framework"}, lid : Ids(P, "lists"), key : P.keys]
ReqGetFrameworkData(P) ==
    [op : {"get_framework_data"}, lid : Ids(P, "lists"), key : P.keys]
ReqUpdateFrameworkData(P) ==
    [op : {"update_framework_data"}, iid : Ids(P, "list_items"), key : P.keys,
     data : P.data]
ReqBatchUpdateFrameworkData(P) ==
    [op : {"batch_update_framework_data"}, lid : Ids(P, "lists"), key : P.keys,
     items : UNION {[S -> P.data] : S \in SUBSET Ids(P, "list_items")}]
ReqGetTags(P) == [op : {"get_tags"}]
ReqCreateTag(P) == [op : {"create_tag"}, name : P.texts, color : ColorInputs]
ReqDeleteTag(P) == [op : {"delete_tag"}, tid : Ids(P, "tags")]
ReqAddItemTag(P) ==
    [op : {"add_item_tag"}, iid : Ids(P, "list_items"), tid : Ids(P, "tags")]
ReqRemoveItemTag(P) ==
    [op : {"remove_item_tag"}, iid : Ids(P, "list_items"), tid : Ids(P, "tags")]
ReqGetComments(P) == [op : {"get_comments"}, iid : Ids(P, "list_items")]
ReqAddComment(P) ==
    [op : {"add_comment"}, iid : Ids(P, "list_items"), content : P.texts]
ReqDeleteComment(P) == [op : {"delete_comment"}, cid : Ids(P, "item_comments")]
ReqDashboard(P) == [op : {"dashboard"}]
ReqExportList(P) ==
    [op : {"export_list"}, lid : Ids(P, "lists"), format : Formats, tie : Ties]
ReqImportList(P) == [op : {"import_list"}, d : P.imports]
ReqShareList(P) ==
    [op : {"share_list"}, lid : Ids(P, "lists"), username : P.usernames,
     permission : PermissionInputs]
ReqGetShares(P) == [op : {"get_shares"}, lid : Ids(P, "lists")]
ReqRemoveShare(P) ==
    [op : {"remove_share"}, lid : Ids(P, "lists"), sid : Ids(P, "list_shares")]
ReqGetSharedLists(P) == [op : {"get_shared_lists"}]
ReqGetTemplates(P) == [op : {"get_templates"}]
ReqSaveTemplate(P) ==
    [op : {"save_template"}, lid : Ids(P, "lists"), name : P.texts, tie : Ties]
ReqCreateFromTemplate(P) ==
    [op : {"create_from_template"}, tid : Ids(P, "list_templates"), name : P.texts]
ReqDeleteTemplate(P) == [op : {"delete_template"}, tid : Ids(P, "list_templates")]

\* The routes decorated with @login_required.
ProtectedOps ==
    {"frameworks_catalog", "get_lists", "create_list", "update_list", "delete_list",
     "get_items", "create_item", "update_item", "delete_item", "toggle_item",
     "reorder_items", "bulk_delete_items", "bulk_move_items",
     "get_list_frameworks", "add_list_framework", "remove_list_framework",
     "get_framework_data", "update_framework_data", "batch_update_framework_data",
     "get_tags", "create_tag", "delete_tag", "add_item_tag", "remove_item_tag",
     "get_comments", "add_comment", "delete_comment", "dashboard",
     "export_list", "import_list", "share_list", "get_shares", "remove_share",
     "get_shared_lists", "get_templates", "save_template",
     "create_from_template", "delete_template"}

\* The requests of the @login_required routes, one set per route.
ProtectedRequests(P) ==
    <<ReqFrameworksCatalog(P), ReqGetLists(P), ReqCreateList(P), ReqUpdateList(P),
      ReqDeleteList(P), ReqGetItems(P), ReqCreateItem(P), ReqUpdateItem(P),
      ReqDeleteItem(P), ReqToggleItem(P), ReqReorderItems(P), ReqBulkDeleteItems(P),
      ReqBulkMoveItems(P), ReqGetListFrameworks(P), ReqAddListFramework(P),
      ReqRemoveListFramework(P), ReqGetFrameworkData(P), ReqUpdateFrameworkData(P),
      ReqBatchUpdateFrameworkData(P), ReqGetTags(P), ReqCreateTag(P), ReqDeleteTag(P),
      ReqAddItemTag(P), ReqRemoveItemTag(P), ReqGetComments(P), ReqAddComment(P),
      ReqDeleteComment(P), ReqDashboard(P), ReqExportList(P), ReqImportList(P),
      ReqShareList(P), ReqGetShares(P), ReqRemoveShare(P), ReqGetSharedLists(P),
      ReqGetTemplates(P), ReqSaveTemplate(P), ReqCreateFromTemplate(P),
      ReqDeleteTemplate(P)>>

\* Flask's routing: the handler of a request, run against ctx.
Handle(ctx, req) ==
    CASE req.op = "register" -> register(ctx, req.username, req.password)
      [] req.op = "login" -> login(ctx, req.username, req.password)
      [] req.op = "logout" -> logout(ctx)
      [] req.op = "me" -> me(ctx)
      [] req.op = "index" -> index(ctx)
      [] req.op = "health_check" -> health_check(ctx)
      [] req.op = "frameworks_catalog" -> frameworks_catalog(ctx)
      [] req.op = "get_lists" -> get_lists(ctx)
      [] req.op = "create_list" -> create_list(ctx, req.name, req.description)
      [] req.op = "update_list" -> update_list(ctx, req.lid, req.name, req.description)
      [] req.op = "delete_list" -> delete_list(ctx, req.lid)
      [] req.op = "get_items" -> get_items(ctx, req.lid)
      [] req.op = "create_item" -> create_item(ctx, req.lid, req.d)
      [] req.op = "update_item" -> update_item(ctx, req.lid, req.iid, req.d)
      [] req.op = "delete_item" -> delete_item(ctx, req.lid, req.iid)
      [] req.op = "toggle_item" -> toggle_item(ctx, req.lid, req.iid)
      [] req.op = "reorder_items" -> reorder_items(ctx, req.lid, req.order)
      [] req.op = "bulk_delete_items" -> bulk_delete_items(ctx, req.lid, req.ids)
      [] req.op = "bulk_move_items" ->
            bulk_move_items(ctx, req.lid, req.ids, req.target_list_id)
      [] req.op = "get_list_frameworks" -> get_list_frameworks(ctx, req.lid)
      [] req.op = "add_list_framework" -> add_list_framework(ctx, req.lid, req.key)
      [] req.op = "remove_list_framework" -> remove_list_framework(ctx, req.lid, req.key)
      [] req.op = "get_framework_data" -> get_framework_data(ctx, req.lid, req.key)
      [] req.op = "update_framework_data" ->
            update_framework_data(ctx, req.iid, req.key, req.data)
      [] req.op = "batch_update_framework_data" ->
            batch_update_framework_data(ctx, req.lid, req.key, req.items)
      [] req.op = "get_tags" -> get_tags(ctx)
      [] req.op = "create_tag" -> create_tag(ctx, req.name, req.color)
      [] req.op = "delete_tag" -> delete_tag(ctx, req.tid)
      [] req.op = "add_item_tag" -> add_item_tag(ctx, req.iid, req.tid)
      [] req.op = "remove_item_tag" -> remove_item_tag(ctx, req.iid, req.tid)
      [] req.op = "get_comments" -> get_comments(ctx, req.iid)
      [] req.op = "add_comment" -> add_comment(ctx, req.iid, req.content)
      [] req.op = "delete_comment" -> delete_comment(ctx, req.cid)
      [] req.op = "dashboard" -> dashboard(ctx)
      [] req.op = "export_list" -> export_list(ctx, req.lid, req.format, req.tie)
      [] req.op = "import_list" -> import_list(ctx, req.d)
      [] req.op = "share_list" ->
            share_list(ctx, req.lid, req.username, req.permission)
      [] req.op = "get_shares" -> get_shares(ctx, req.lid)
      [] req.op = "remove_share" -> remove_share(ctx, req.lid, req.sid)
      [] req.op = "get_shared_lists" -> get_shared_lists(ctx)
      [] req.op = "get_templates" -> get_templates(ctx)
      [] req.op = "save_template" -> save_template(ctx, req.lid, req.name, req.tie)
      [] req.op = "create_from_template" ->
            create_from_template(ctx, req.tid, req.name)
      [] req.op = "delete_template" -> delete_template(ctx, req.tid)

\* ================================================================ threads
\* gunicorn.conf.py: `workers` processes of worker_class gthread, each with
\* `threads` request threads.  A process has its own module globals, so its
\* own _rate_store; the SQLite file is shared by all.
WorkerThreads == 2
ConcWorkers == 2
Workers == 1..ConcWorkers
Threads == Workers \X (1..WorkerThreads)
NoThread == <<0, 0>>

\* A thread between requests.  c: the client served; t: the thread's local
\* `now`; kept: the list its comprehension built; status: its last answer.
IdleThread ==
    [pc |-> "idle", c |-> 0, t |-> 0, kept |-> <<>>,
     username |-> <<>>, password |-> <<>>, status |-> 0]

\* ================================================================= actions
NoResponse ==
    [op |-> "none", status |-> 0, uid |-> NoUser, changed |-> FALSE, inserted |-> FALSE]

Init ==
    /\ users = {} /\ lists = {} /\ list_items = {} /\ list_frameworks = {}
    /\ item_framework_data = {} /\ tags = {} /\ item_tags = {}
    /\ list_shares = {} /\ item_comments = {} /\ list_templates = {}
    /\ seq = EmptyDB.seq
    /\ session = [c \in Clients |-> NoSession]
    /\ rate_store = [k \in RateKeys |-> <<>>]
    /\ now = 0
    /\ last = NoResponse
    /\ worker_store = [w \in Workers |-> [k \in RateKeys |-> <<>>]]
    /\ thr = [th \in Threads |-> IdleThread]
    /\ db_writer = NoThread
    /\ arrived = 0
    /\ admitted = [c \in Clients |-> <<>>]

\* Client c sends req; the handler runs to its response (commit included).
\* The response is kept in `last` for the handlers the scenario observes.
Step(c, P, req) ==
    \E r \in {Handle(Ctx(c), req)} :
        /\ \A t \in TableNames : r.db.seq[t] <= P.cap[t]
        /\ Len(r.rate[RateKey(c, "auth")]) <= P.auth
        /\ users' = r.db.users
        /\ lists' = r.db.lists
        /\ list_items' = r.db.list_items
        /\ list_frameworks' = r.db.list_frameworks
        /\ item_framework_data' = r.db.item_framework_data
        /\ tags' = r.db.tags
        /\ item_tags' = r.db.item_tags
        /\ list_shares' = r.db.list_shares
        /\ item_comments' = r.db.item_comments
        /\ list_templates' = r.db.list_templates
        /\ seq' = r.db.seq
        /\ session' = [session EXCEPT ![c] = r.sess]
        /\ rate_store' = r.rate
        /\ last' = IF req.op \in P.observe
                   THEN [op |-> req.op, status |-> r.status,
                         uid |-> session[c].user_id, changed |-> r.db # DB,
                         inserted |-> r.db.seq # seq]
                   ELSE NoResponse
        /\ UNCHANGED <<now, threads_vars>>

Register(c, P) == \E req \in ReqRegister(P) : c \in Clients /\ Step(c, P, req)
Login(c, P) == \E req \in ReqLogin(P) : c \in Clients /\ Step(c, P, req)
Logout(c, P) == \E req \in ReqLogout(P) : c \in Clients /\ Step(c, P, req)
Me(c, P) == \E req \in ReqMe(P) : c \in Clients /\ Step(c, P, req)
Index(c, P) == \E req \in ReqIndex(P) : c \in Clients /\ Step(c, P, req)
HealthCheck(c, P) == \E req \in ReqHealthCheck(P) : c \in Clients /\ Step(c, P, req)
FrameworksCatalog(c, P) == \E req \in ReqFrameworksCatalog(P) : c \in Clients /\ Step(c, P, req)
GetLists(c, P) == \E req \in ReqGetLists(P) : c \in Clients /\ Step(c, P, req)
CreateList(c, P) == \E req \in ReqCreateList(P) : c \in Clients /\ Step(c, P, req)
UpdateList(c, P) == \E req \in ReqUpdateList(P) : c \in Clients /\ Step(c, P, req)
DeleteList(c, P) == \E req \in ReqDeleteList(P) : c \in Clients /\ Step(c, P, req)
GetItems(c, P) == \E req \in ReqGetItems(P) : c \in Clients /\ Step(c, P, req)
CreateItem(c, P) == \E req \in ReqCreateItem(P) : c \in Clients /\ Step(c, P, req)
UpdateItem(c, P) == \E req \in ReqUpdateItem(P) : c \in Clients /\ Step(c, P, req)
DeleteItem(c, P) == \E req \in ReqDeleteItem(P) : c \in Clients /\ Step(c, P, req)
ToggleItem(c, P) == \E req \in ReqToggleItem(P) : c \in Clients /\ Step(c, P, req)
ReorderItems(c, P) == \E req \in ReqReorderItems(P) : c \in Clients /\ Step(c, P, req)
BulkDeleteItems(c, P) == \E req \in ReqBulkDeleteItems(P) : c \in Clients /\ Step(c, P, req)
BulkMoveItems(c, P) == \E req \in ReqBulkMoveItems(P) : c \in Clients /\ Step(c, P, req)
GetListFrameworks(c, P) == \E req \in ReqGetListFrameworks(P) : c \in Clients /\ Step(c, P, req)
AddListFramework(c, P) == \E req \in ReqAddListFramework(P) : c \in Clients /\ Step(c, P, req)
RemoveListFramework(c, P) == \E req \in ReqRemoveListFramework(P) : c \in Clients /\ Step(c, P, req)
GetFrameworkData(c, P) == \E req \in ReqGetFrameworkData(P) : c \in Clients /\ Step(c, P, req)
UpdateFrameworkData(c, P) == \E req \in ReqUpdateFrameworkData(P) : c \in Clients /\ Step(c, P, req)
BatchUpdateFrameworkData(c, P) ==
    \E req \in ReqBatchUpdateFrameworkData(P) : c \in Clients /\ Step(c, P, req)
GetTags(c, P) == \E req \in ReqGetTags(P) : c \in Clients /\ Step(c, P, req)
CreateTag(c, P) == \E req \in ReqCreateTag(P) : c \in Clients /\ Step(c, P, req)
DeleteTag(c, P) == \E req \in ReqDeleteTag(P) : c \in Clients /\ Step(c, P, req)
AddItemTag(c, P) == \E req \in ReqAddItemTag(P) : c \in Clients /\ Step(c, P, req)
RemoveItemTag(c, P) == \E req \in ReqRemoveItemTag(P) : c \in Clients /\ Step(c, P, req)
GetComments(c, P) == \E req \in ReqGetComments(P) : c \in Clients /\ Step(c, P, req)
AddComment(c, P) == \E req \in ReqAddComment(P) : c \in Clients /\ Step(c, P, req)
DeleteComment(c, P) == \E req \in ReqDeleteComment(P) : c \in Clients /\ Step(c, P, req)
Dashboard(c, P) == \E req \in ReqDashboard(P) : c \in Clients /\ Step(c, P, req)
ExportList(c, P) == \E req \in ReqExportList(P) : c \in Clients /\ Step(c, P, req)
ImportList(c, P) == \E req \in ReqImportList(P) : c \in Clients /\ Step(c, P, req)
ShareList(c, P) == \E req \in ReqShareList(P) : c \in Clients /\ Step(c, P, req)
GetShares(c, P) == \E req \in ReqGetShares(P) : c \in Clients /\ Step(c, P, req)
RemoveShare(c, P) == \E req \in ReqRemoveShare(P) : c \in Clients /\ Step(c, P, req)
GetSharedLists(c, P) == \E req \in ReqGetSharedLists(P) : c \in Clients /\ Step(c, P, req)
GetTemplates(c, P) == \E req \in ReqGetTemplates(P) : c \in Clients /\ Step(c, P, req)
SaveTemplate(c, P) == \E req \in ReqSaveTemplate(P) : c \in Clients /\ Step(c, P, req)
CreateFromTemplate(c, P) == \E req \in ReqCreateFromTemplate(P) : c \in Clients /\ Step(c, P, req)
DeleteTemplate(c, P) == \E req \in ReqDeleteTemplate(P) : c \in Clients /\ Step(c, P, req)

\* The client exports a list of its own as JSON and posts the document back
\* to /api/lists/import under another name.
ReExports(c, P) ==
    {[op |-> "import_list",
      d |-> [export_list(Ctx(c), x[1], "json", x[2]).body EXCEPT !.name = x[3]]] :
        x \in {l.id : l \in {y \in lists : y.user_id = session[c].user_id}}
               \X Ties \X (P.texts \ {<<>>})}
ImportExported(c, P) == \E req \in ReExports(c, P) : c \in Clients /\ Step(c, P, req)

\* The clock passes the limiter's window.
Tick(P) ==
    /\ now < P.ticks * RATE_WINDOW
    /\ now' = now + RATE_WINDOW
    /\ UNCHANGED <<tables, session, rate_store, last, threads_vars>>

Next(P) ==
    \E c \in Clients :
        \/ Register(c, P) \/ Login(c, P) \/ Logout(c, P) \/ Me(c, P)
        \/ Index(c, P) \/ HealthCheck(c, P) \/ FrameworksCatalog(c, P)
        \/ GetLists(c, P) \/ CreateList(c, P) \/ UpdateList(c, P)
        \/ DeleteList(c, P) \/ GetItems(c, P) \/ CreateItem(c, P)
        \/ UpdateItem(c, P) \/ DeleteItem(c, P) \/ ToggleItem(c, P)
        \/ ReorderItems(c, P) \/ BulkDeleteItems(c, P) \/ BulkMoveItems(c, P)
        \/ GetListFrameworks(c, P) \/ AddListFramework(c, P)
        \/ RemoveListFramework(c, P) \/ GetFrameworkData(c, P)
        \/ UpdateFrameworkData(c, P) \/ BatchUpdateFrameworkData(c, P)
        \/ GetTags(c, P) \/ CreateTag(c, P) \/ DeleteTag(c, P)
        \/ AddItemTag(c, P) \/ RemoveItemTag(c, P) \/ GetComments(c, P)
        \/ AddComment(c, P) \/ DeleteComment(c, P) \/ Dashboard(c, P)
        \/ ExportList(c, P) \/ ImportList(c, P)
        \/ ShareList(c, P) \/ GetShares(c, P) \/ RemoveShare(c, P)
        \/ GetSharedLists(c, P) \/ GetTemplates(c, P) \/ SaveTemplate(c, P)
        \/ CreateFromTemplate(c, P) \/ DeleteTemplate(c, P)

\* ------------------------------------------- _rate_limited, step by step
\* A request thread of worker th[1] runs _rate_limited against that worker's
\* _rate_store; nothing in the function takes a lock, so the steps of two
\* threads of one worker interleave.
TheKey(th) == RateKey(thr[th].c, "auth")
TheStore(th) == worker_store[th[1]][TheKey(th)]
HandlerVars == <<tables, session, rate_store, last>>

\* now = time.time(), on a thread that picks up a request of client c.
RateNow(th, c, P) ==
    /\ thr[th].pc = "idle"
    /\ arrived < P.requests
    /\ arrived' = arrived + 1
    /\ thr' = [thr EXCEPT ![th] = [IdleThread EXCEPT !.pc = "filter",
                                                     !.c = c, !.t = now]]
    /\ UNCHANGED <<HandlerVars, now, worker_store, db_writer, admitted>>

\* [t for t in _rate_store[key] if now - t < RATE_WINDOW]: the new list.
RateFilter(th) ==
    /\ thr[th].pc = "filter"
    /\ LET InWindow(x) == thr[th].t - x < RATE_WINDOW
       IN  thr' = [thr EXCEPT ![th].pc = "assign",
                              ![th].kept = SelectSeq(TheStore(th), InWindow)]
    /\ UNCHANGED <<HandlerVars, now, worker_store, db_writer, arrived, admitted>>

\* _rate_store[key] = <the new list>
RateAssign(th) ==
    /\ thr[th].pc = "assign"
    /\ worker_store' = [worker_store EXCEPT ![th[1]][TheKey(th)] = thr[th].kept]
    /\ thr' = [thr EXCEPT ![th].pc = "check"]
    /\ UNCHANGED <<HandlerVars, now, db_writer, arrived, admitted>>

\* if len(_rate_store[key]) >= RATE_LIMIT: return True  -> 429
RateCheck(th) ==
    /\ thr[th].pc = "check"
    /\ thr' = IF Len(TheStore(th)) >= RATE_LIMIT
              THEN [thr EXCEPT ![th] = [IdleThread EXCEPT !.status = 429]]
              ELSE [thr EXCEPT ![th].pc = "append"]
    /\ UNCHANGED <<HandlerVars, now, worker_store, db_writer, arrived, admitted>>

\* _rate_store[key].append(now); return False.  The handler goes on to its
\* body, which never touches _rate_store again.
RateAppend(th) ==
    /\ thr[th].pc = "append"
    /\ worker_store' =
           [worker_store EXCEPT ![th[1]][TheKey(th)] = Append(@, thr[th].t)]
    /\ admitted' = [admitted EXCEPT ![thr[th].c] = Append(@, thr[th].t)]
    /\ thr' = [thr EXCEPT ![th] = IdleThread]
    /\ UNCHANGED <<HandlerVars, now, db_writer, arrived>>

\* ------------------------------------------------ register, step by step
\* Each request has its own SQLite connection (get_db); a SELECT sees what is
\* committed, an INSERT takes the database's one write lock and keeps it
\* until commit or close.
OtherTables ==
    <<lists, list_items, list_frameworks, item_framework_data, tags,
      item_tags, list_shares, item_comments, list_templates>>
Answer(th, status) == [thr EXCEPT ![th].pc = "done", ![th].status = status]

\* register up to get_db(): the rate limit, then the checks of the body.
RegBegin(th, c, P) ==
    \E name \in P.usernames, pw \in P.passwords :
        LET rl == _rate_limited(worker_store[th[1]], RateKey(c, "auth"), now)
            username == lower(_san(name, MAX_STR))
            t == [IdleThread EXCEPT !.c = c, !.t = now, !.username = username,
                                    !.password = pw]
        IN  /\ thr[th].pc = "idle"
            /\ arrived < P.requests
            /\ arrived' = arrived + 1
            /\ worker_store' = [worker_store EXCEPT ![th[1]] = rl.store]
            /\ admitted' = IF rl.limited THEN admitted
                           ELSE [admitted EXCEPT ![c] = Append(@, now)]
            /\ thr' = [thr EXCEPT ![th] =
                        IF rl.limited THEN [t EXCEPT !.pc = "done", !.status = 429]
                        ELSE IF \/ ~UsernameOk(username)
                                \/ Len(pw) < MinPasswordLen
                                \/ Len(pw) > MaxPasswordLen
                            THEN [t EXCEPT !.pc = "done", !.status = 400]
                        ELSE [t EXCEPT !.pc = "select"]]
            /\ UNCHANGED <<HandlerVars, now, db_writer>>

\* SELECT id FROM users WHERE username=?  -> 409 when a row is committed
RegSelect(th) ==
    /\ thr[th].pc = "select"
    /\ thr' = IF \E u \in users : u.username = thr[th].username
              THEN Answer(th, 409)
              ELSE [thr EXCEPT ![th].pc = "insert"]
    /\ UNCHANGED <<HandlerVars, now, worker_store, db_writer, arrived, admitted>>

\* INSERT INTO users with the write lock free: UNIQUE(username) is checked
\* against what is committed by now; sqlite3.IntegrityError is not caught,
\* so _server_error answers 500 and close_db drops the transaction.
RegInsert(th) ==
    /\ thr[th].pc = "insert"
    /\ db_writer = NoThread
    /\ IF \E u \in users : u.username = thr[th].username
       THEN thr' = Answer(th, 500) /\ UNCHANGED db_writer
       ELSE thr' = [thr EXCEPT ![th].pc = "commit"] /\ db_writer' = th
    /\ UNCHANGED <<HandlerVars, now, worker_store, arrived, admitted>>

\* INSERT INTO users while another connection holds the write lock past the
\* busy timeout: sqlite3.OperationalError (database is locked), not caught.
RegBusy(th) ==
    /\ thr[th].pc = "insert"
    /\ db_writer \notin {NoThread, th}
    /\ thr' = Answer(th, 500)
    /\ UNCHANGED <<HandlerVars, now, worker_store, db_writer, arrived, admitted>>

\* db.commit(), then the session of the response.
RegCommit(th) ==
    /\ thr[th].pc = "commit"
    /\ db_writer = th
    /\ users' = users \cup {[id |-> seq["users"] + 1,
                             username |-> thr[th].username,
                             password |-> generate_password_hash(thr[th].password)]}
    /\ seq' = [seq EXCEPT !["users"] = @ + 1]
    /\ db_writer' = NoThread
    /\ session' = [session EXCEPT ![thr[th].c] =
                      [user_id |-> seq["users"] + 1, username |-> thr[th].username]]
    /\ thr' = Answer(th, 200)
    /\ UNCHANGED <<OtherTables, rate_store, now, last, worker_store, arrived, admitted>>

\* =============================================================== scenarios
T_empty == <<>>
T_a == <<"a">>
T_b == <<"b">>
T_amp == <<"a","&","b">>
T_padded == <<" ","b"," ">>
U_bob == <<"b","o","b">>
U_Bob == <<" ","B","o","b">>
U_ann == <<"a","n","n">>
U_eve == <<"e","v","e">>
U_short == <<"a","l">>
U_bad == <<"b","<","b">>
PwSecret == <<"s","e","c","r","e","t">>
PwHunter == <<"h","u","n","t","e","r","2">>
PwShort == <<"a","b","c","1","2">>
PwLong == [i \in 1..(MaxPasswordLen + 1) |-> "x"]
D_2024 == <<"2","0","2","4","-","0","1","-","3","1">>
D_bad == <<"s","o","o","n">>

ItemBody(t, p) == [title |-> t, description |-> <<>>, due_date |-> NoDate, priority |-> p]
ImportDoc(n, its, fws) ==
    [name |-> n, description |-> <<>>, items |-> its, frameworks |-> fws]
ImportItem(t, p, done) ==
    [title |-> t, description |-> <<>>, due_date |-> NoDate, priority |-> p,
     completed |-> done]

Caps(u, l, i, lf, fd, tg, sh, cm, tp) ==
    [users |-> u, lists |-> l, list_items |-> i, list_frameworks |-> lf,
     item_framework_data |-> fd, tags |-> tg, list_shares |-> sh,
     item_comments |-> cm, list_templates |-> tp]

\* Every handler, on a database of at most one row per table.
GateMaxRows == 1
GateMaxAuth == 2
ScnGate ==
    [cap |-> [t \in TableNames |-> IF t = "list_shares" THEN 0 ELSE GateMaxRows],
     auth |-> GateMaxAuth, ticks |-> 0,
     observe |-> {"create_list", "get_items"},
     usernames |-> {U_bob}, passwords |-> {PwSecret},
     texts |-> {T_empty, T_a}, descs |-> {T_empty},
     items |-> {ItemBody(T_a, "high"), ItemBody(T_empty, "low")},
     keys |-> {"kanban"}, data |-> {"d1"},
     imports |-> {ImportDoc(T_a, <<>>, <<>>)}]
SpecGate == Init /\ [][Next(ScnGate)]_vars

\* Two users, each with a list, and every kind of row that hangs off a list.
OwnersMaxUsers == 2
OwnersMaxLists == 2
OwnersMaxItems == 1
OwnersMaxChildren == 1
OwnersMaxAuth == 2
ScnOwners ==
    [cap |-> Caps(OwnersMaxUsers, OwnersMaxLists, OwnersMaxItems, OwnersMaxChildren,
                  OwnersMaxChildren, OwnersMaxChildren, OwnersMaxChildren,
                  OwnersMaxChildren, 0),
     auth |-> OwnersMaxAuth, ticks |-> 0,
     observe |-> {"delete_list", "add_comment", "batch_update_framework_data"},
     usernames |-> {U_bob, U_ann}, passwords |-> {PwSecret},
     texts |-> {T_a}, descs |-> {T_empty},
     items |-> {ItemBody(T_a, "high")},
     keys |-> {"kanban"}, data |-> {"d1"},
     imports |-> {ImportDoc(T_a, <<>>, <<>>)}]
NextOwners ==
    \E c \in Clients :
        \/ Register(c, ScnOwners)
        \/ CreateList(c, ScnOwners) \/ CreateItem(c, ScnOwners)
        \/ AddListFramework(c, ScnOwners) \/ UpdateFrameworkData(c, ScnOwners)
        \/ BatchUpdateFrameworkData(c, ScnOwners)
        \/ CreateTag(c, ScnOwners) \/ AddItemTag(c, ScnOwners)
        \/ AddComment(c, ScnOwners) \/ ShareList(c, ScnOwners)
        \/ DeleteList(c, ScnOwners)
SpecOwners == Init /\ [][NextOwners]_vars

\* One user, two lists and the items moved, reordered and toggled in them.
ItemsMaxLists == 2
ItemsMaxItems == 3
ScnItems ==
    [cap |-> Caps(1, ItemsMaxLists, ItemsMaxItems, 0, 0, 0, 0, 0, 0),
     auth |-> 1, ticks |-> 0,
     observe |-> {"reorder_items", "toggle_item"},
     usernames |-> {U_bob}, passwords |-> {PwSecret},
     texts |-> {T_a}, descs |-> {T_empty},
     items |-> {ItemBody(T_a, "high")},
     keys |-> {"kanban"}, data |-> {"d1"},
     imports |-> {ImportDoc(T_a, <<>>, <<>>)}]
NextItems ==
    \E c \in Clients :
        \/ Register(c, ScnItems) \/ CreateList(c, ScnItems)
        \/ CreateItem(c, ScnItems) \/ GetItems(c, ScnItems)
        \/ ToggleItem(c, ScnItems) \/ ReorderItems(c, ScnItems)
        \/ BulkMoveItems(c, ScnItems)
SpecItems == Init /\ [][NextItems]_vars

\* One user, two lists with items, frameworks attached, detached and
\* imported, framework data written under catalog keys and under another.
FwMaxLists == 2
FwMaxItems == 2
FwMaxAttached == 3
FwMaxData == 2
ScnFw ==
    [cap |-> Caps(1, FwMaxLists, FwMaxItems, FwMaxAttached, FwMaxData, 0, 0, 0, 0),
     auth |-> 1, ticks |-> 0,
     observe |-> {"add_list_framework", "remove_list_framework", "import_list"},
     usernames |-> {U_bob}, passwords |-> {PwSecret},
     texts |-> {T_a}, descs |-> {T_empty},
     items |-> {ItemBody(T_a, "high")},
     keys |-> {"kanban", "pareto", "bogus"}, data |-> {"d1"},
     imports |-> {ImportDoc(T_a, <<>>, <<"kanban", "bogus", "kanban">>)}]
NextFw ==
    \E c \in Clients :
        \/ Register(c, ScnFw) \/ CreateList(c, ScnFw) \/ CreateItem(c, ScnFw)
        \/ AddListFramework(c, ScnFw) \/ RemoveListFramework(c, ScnFw)
        \/ UpdateFrameworkData(c, ScnFw) \/ ImportList(c, ScnFw)
SpecFw == Init /\ [][NextFw]_vars

\* Three users (one name sent in two spellings), their lists, and the shares
\* granted, granted again and revoked.
ShareMaxUsers == 3
ShareMaxLists == 2
ShareMaxShares == 2
ScnShare ==
    [cap |-> Caps(ShareMaxUsers, ShareMaxLists, 0, 0, 0, 0, ShareMaxShares, 0, 0),
     auth |-> ShareMaxUsers, ticks |-> 0,
     observe |-> {"share_list"},
     usernames |-> {U_bob, U_Bob, U_ann, U_eve}, passwords |-> {PwSecret},
     texts |-> {T_a}, descs |-> {T_empty},
     items |-> {ItemBody(T_a, "high")},
     keys |-> {"kanban"}, data |-> {"d1"},
     imports |-> {ImportDoc(T_a, <<>>, <<>>)}]
NextShare ==
    \E c \in Clients :
        \/ Register(c, ScnShare) \/ CreateList(c, ScnShare)
        \/ ShareList(c, ScnShare) \/ RemoveShare(c, ScnShare)
        \/ GetShares(c, ScnShare) \/ GetSharedLists(c, ScnShare)
SpecShare == Init /\ [][NextShare]_vars

\* One user's list exported and imported back; the items carry a title with
\* an ampersand, a description, a date and a completed flag.
ExchangeMaxLists == 2
ExchangeMaxItems == 3
ScnExchange ==
    [cap |-> Caps(1, ExchangeMaxLists, ExchangeMaxItems, 0, 0, 0, 0, 0, 0),
     auth |-> 1, ticks |-> 0,
     observe |-> {"import_list", "export_list"},
     usernames |-> {U_bob}, passwords |-> {PwSecret},
     texts |-> {T_a, T_b}, descs |-> {T_empty},
     items |-> {[title |-> T_amp, description |-> T_b, due_date |-> D_2024,
                 priority |-> "high"],
                ItemBody(T_padded, "low")},
     keys |-> {"kanban"}, data |-> {"d1"},
     imports |-> {ImportDoc(T_a, <<>>, <<>>)}]
NextExchange ==
    \E c \in Clients :
        \/ Register(c, ScnExchange) \/ CreateList(c, ScnExchange)
        \/ CreateItem(c, ScnExchange) \/ ToggleItem(c, ScnExchange)
        \/ ExportList(c, ScnExchange) \/ ImportExported(c, ScnExchange)
SpecExchange == Init /\ [][NextExchange]_vars

\* Registrations and logins of two names in several spellings, with good and
\* bad passwords, up to the limiter's threshold and past its window.
AuthMaxUsers == 2
AuthMaxTicks == 1
ScnAuth ==
    [cap |-> Caps(AuthMaxUsers, 0, 0, 0, 0, 0, 0, 0, 0),
     auth |-> RATE_LIMIT, ticks |-> AuthMaxTicks,
     observe |-> {"register", "login"},
     usernames |-> {U_bob, U_Bob, U_ann, U_short, U_bad},
     passwords |-> {PwSecret, PwHunter, PwShort, PwLong},
     texts |-> {T_a}, descs |-> {T_empty},
     items |-> {ItemBody(T_a, "high")},
     keys |-> {"kanban"}, data |-> {"d1"},
     imports |-> {ImportDoc(T_a, <<>>, <<>>)}]
NextAuth ==
    \/ \E c \in Clients :
           \/ Register(c, ScnAuth) \/ Login(c, ScnAuth)
           \/ Logout(c, ScnAuth) \/ Me(c, ScnAuth)
    \/ Tick(ScnAuth)
SpecAuth == Init /\ [][NextAuth]_vars

\* One user, two lists; items created, deleted, reordered and moved, so that
\* the positions in a list have gaps and repeats.
PosMaxLists == 2
PosMaxItems == 3
ScnPos ==
    [cap |-> Caps(1, PosMaxLists, PosMaxItems, 0, 0, 0, 0, 0, 0),
     auth |-> 1, ticks |-> 0,
     observe |-> {"create_item"},
     usernames |-> {U_bob}, passwords |-> {PwSecret},
     texts |-> {T_a}, descs |-> {T_empty},
     items |-> {ItemBody(T_a, "high"), ItemBody(T_empty, "low")},
     keys |-> {"kanban"}, data |-> {"d1"},
     imports |-> {ImportDoc(T_a, <<>>, <<>>)}]
NextPos ==
    \E c \in Clients :
        \/ Register(c, ScnPos) \/ CreateList(c, ScnPos)
        \/ CreateItem(c, ScnPos) \/ DeleteItem(c, ScnPos)
        \/ ReorderItems(c, ScnPos) \/ BulkMoveItems(c, ScnPos)
        \/ BulkDeleteItems(c, ScnPos)
SpecPos == Init /\ [][NextPos]_vars

\* ================================================================= claims
\* What of database d belongs to user a: a's lists, tags and templates, and
\* every row that hangs off one of a's lists or items.
ListsOfUser(d, a) == {l.id : l \in {x \in d.lists : x.user_id = a}}
ItemsOfUser(d, a) == {i.id : i \in {x \in d.list_items : x.list_id \in ListsOfUser(d, a)}}
Owned(d, a) ==
    [lists |-> {l \in d.lists : l.user_id = a},
     list_items |-> {i \in d.list_items : i.list_id \in ListsOfUser(d, a)},
     list_frameworks |-> {r \in d.list_frameworks : r.list_id \in ListsOfUser(d, a)},
     item_framework_data |->
        {r \in d.item_framework_data : r.item_id \in ItemsOfUser(d, a)},
     item_tags |-> {r \in d.item_tags : r.item_id \in ItemsOfUser(d, a)},
     item_comments |-> {r \in d.item_comments : r.item_id \in ItemsOfUser(d, a)},
     list_shares |-> {r \in d.list_shares : r.list_id \in ListsOfUser(d, a)},
     tags |-> {t \in d.tags : t.user_id = a},
     list_templates |-> {t \in d.list_templates : t.user_id = a}]

\* A 200 answer to a read that names a list or an item is given to its owner.
ReadsOwn(ctx, req, r) ==
    \/ r.status # 200
    \/ CASE req.op \in {"get_items", "get_list_frameworks", "get_framework_data",
                        "export_list"} -> _owns_list(ctx, req.lid)
         [] req.op = "get_shares" -> \A e \in r.body : e.share.owner_id = uid(ctx)
         [] req.op = "get_comments" -> OwnsItem(ctx, req.iid)
         [] req.op = "get_lists" -> \A e \in r.body : e.list.user_id = uid(ctx)
         [] req.op = "get_tags" -> \A t \in r.body : t.user_id = uid(ctx)
         [] OTHER -> TRUE

\* C1 (as the specification states it): while no list is shared, no request
\* of a logged-in user B returns or changes anything that belongs to another
\* user A.  The comment and batch framework-data routes break it.
IsolationHolds ==
    seq["list_shares"] = 0 =>
        \A c \in Clients :
            session[c].user_id # NoUser =>
                \A k \in DOMAIN ProtectedRequests(ScnOwners) :
                    \A req \in ProtectedRequests(ScnOwners)[k] :
                        LET r == Handle(Ctx(c), req)
                        IN  /\ ReadsOwn(Ctx(c), req, r)
                            /\ \A a \in users :
                                   a.id # session[c].user_id =>
                                       Owned(r.db, a.id) = Owned(DB, a.id)

\* C2: with no user in the session every @login_required route answers 401
\* and neither the database nor the session changes; a successful register
\* or login puts that user in the session; no other route but logout changes
\* the session, and with a user in it no protected route answers 401; logout
\* empties it.
GateHolds ==
    \A c \in Clients :
        /\ \A k \in DOMAIN ProtectedRequests(ScnGate) :
               \A req \in ProtectedRequests(ScnGate)[k] :
                   LET r == Handle(Ctx(c), req)
                   IN  /\ r.sess = session[c]
                       /\ IF session[c].user_id = NoUser
                          THEN r.status = 401 /\ r.db = DB
                          ELSE r.status # 401
        /\ \A req \in ReqRegister(ScnGate) \cup ReqLogin(ScnGate) :
               LET r == Handle(Ctx(c), req)
               IN  IF r.status = 200
                   THEN \E u \in r.db.users :
                            /\ u.username = lower(_san(req.username, MAX_STR))
                            /\ r.sess = [user_id |-> u.id, username |-> u.username]
                   ELSE r.sess = session[c] /\ r.db = DB
        /\ \A req \in ReqMe(ScnGate) \cup ReqIndex(ScnGate) \cup ReqHealthCheck(ScnGate) :
               Handle(Ctx(c), req).sess = session[c]
        /\ logout(Ctx(c)).sess = NoSession
        /\ session[c].user_id # NoUser =>
               \E u \in users : u.id = session[c].user_id

\* C2's case: a logged-out client asked for a list's items and got 401 while
\* the list exists.
GateWitness ==
    /\ last.op = "get_items" /\ last.status = 401 /\ last.uid = NoUser
    /\ lists # {} /\ users # {}

\* C3: for every list L of the caller, DELETE /api/lists/L leaves no item,
\* list-framework or share row of L and no framework-data, item-tag or comment
\* row of an item that was in L; the rows of every other list, and the users,
\* tags and templates, are as before; an export of L then answers 404.
CascadeHolds ==
    \A c \in Clients :
        \A lid \in ListsOfUser(DB, session[c].user_id) :
            LET r == delete_list(Ctx(c), lid)
                d == r.db
                was == {i.id : i \in ItemsOf(DB, lid)}
            IN  /\ session[c].user_id # NoUser
                /\ r.status = 200
                /\ d.lists = {l \in lists : l.id # lid}
                /\ d.list_items = {i \in list_items : i.list_id # lid}
                /\ d.list_frameworks = {x \in list_frameworks : x.list_id # lid}
                /\ d.list_shares = {x \in list_shares : x.list_id # lid}
                /\ d.item_framework_data =
                       {x \in item_framework_data : x.item_id \notin was}
                /\ d.item_tags = {x \in item_tags : x.item_id \notin was}
                /\ d.item_comments = {x \in item_comments : x.item_id \notin was}
                /\ d.users = users /\ d.tags = tags
                /\ d.list_templates = list_templates /\ d.seq = seq
                /\ \A f \in Formats : \A tie \in Ties :
                       export_list([Ctx(c) EXCEPT !.db = d], lid, f, tie).status = 404

\* C3's case: a list that had an item, a framework and a share, the item
\* having framework data and a comment, was deleted by its owner while
\* another list stayed.
CascadeWitness ==
    /\ last.op = "delete_list" /\ last.status = 200 /\ last.uid # NoUser
    /\ seq["lists"] = 2 /\ Cardinality(lists) = 1
    /\ seq["list_items"] = 1 /\ list_items = {}
    /\ seq["list_frameworks"] = 1 /\ list_frameworks = {}
    /\ seq["list_shares"] = 1 /\ list_shares = {}
    /\ seq["item_framework_data"] = 1 /\ item_framework_data = {}
    /\ seq["item_comments"] = 1 /\ item_comments = {}
    /\ tags # {} /\ item_tags = {}

\* every ordering of the members of S
RECURSIVE Perms(_)
Perms(S) ==
    IF S = {} THEN {<<>>}
    ELSE UNION {{<<x>> \o q : q \in Perms(S \ {x})} : x \in S}

\* C4: for every list L of the caller and every permutation P of the ids of
\* the items now in L (whatever their positions, equal ones included),
\* reorder(L, P) succeeds and get_items(L) then returns the items in the
\* order P.
ReorderHolds ==
    \A c \in Clients :
        \A lid \in ListsOfUser(DB, session[c].user_id) :
            \A P \in Perms({i.id : i \in ItemsOf(DB, lid)}) :
                LET r == reorder_items(Ctx(c), lid, P)
                    g == get_items([Ctx(c) EXCEPT !.db = r.db], lid)
                IN  /\ r.status = 200
                    /\ g.status = 200
                    /\ [k \in 1..Len(g.body) |-> g.body[k].item.id] = P

\* C4's case: a reorder succeeded and a list of three items now has a later
\* id before an earlier one.
ReorderWitness ==
    /\ last.op = "reorder_items" /\ last.status = 200
    /\ \E l \in lists :
           /\ Cardinality(ItemsOf(DB, l.id)) = ItemsMaxItems
           /\ \E a, b \in ItemsOf(DB, l.id) : a.id < b.id /\ b.sort_order < a.sort_order

\* C5: toggle on an item of the caller answers 200 with the flipped flag,
\* changes the completed field of that item and nothing else in the database,
\* and a second toggle brings the database back.
ToggleHolds ==
    \A c \in Clients :
        \A item \in list_items :
            OwnsItemIn(Ctx(c), item.list_id, item.id) =>
                LET r1 == toggle_item(Ctx(c), item.list_id, item.id)
                    r2 == toggle_item([Ctx(c) EXCEPT !.db = r1.db], item.list_id, item.id)
                IN  /\ item.completed \in {0, 1}
                    /\ r1.status = 200 /\ r1.body.completed = 1 - item.completed
                    /\ r1.db = [DB EXCEPT !.list_items =
                                   (@ \ {item}) \cup
                                   {[item EXCEPT !.completed = 1 - item.completed]}]
                    /\ r2.status = 200 /\ r2.body.completed = item.completed
                    /\ r2.db = DB

\* C5's case: a toggle succeeded, and of three items one is completed and
\* one is not.
ToggleWitness ==
    /\ last.op = "toggle_item" /\ last.status = 200
    /\ Cardinality(list_items) = ItemsMaxItems
    /\ \E a, b \in list_items : a.completed = 1 /\ b.completed = 0

\* C6: list_frameworks holds at most one row per (list, key) and only catalog
\* keys; attaching a catalog key to a list of the caller answers 201 and
\* leaves exactly one row for it (the database is untouched if it was there),
\* attaching it again changes nothing; a key outside the catalog is refused
\* with no row added; an import attaches each catalog key of its document
\* once and no other key.
FrameworkRowsHolds ==
    /\ \A x, y \in list_frameworks :
           x.list_id = y.list_id /\ x.framework_key = y.framework_key => x = y
    /\ \A x \in list_frameworks : x.framework_key \in FRAMEWORKS
    /\ \A c \in Clients :
           \A lid \in ListsOfUser(DB, session[c].user_id) :
               \A key \in ScnFw.keys :
                   LET r == add_list_framework(Ctx(c), lid, key)
                       again == add_list_framework([Ctx(c) EXCEPT !.db = r.db], lid, key)
                       rows(d) == {x \in d.list_frameworks :
                                      x.list_id = lid /\ x.framework_key = key}
                   IN  IF key \in FRAMEWORKS
                       THEN /\ r.status = 201 /\ again.status = 201
                            /\ Cardinality(rows(r.db)) = 1
                            /\ rows(DB) # {} => r.db = DB
                            /\ again.db = r.db
                       ELSE r.status = 400 /\ r.db = DB
    /\ \A c \in Clients :
           session[c].user_id # NoUser =>
               \A d \in ScnFw.imports :
                   LET r == import_list(Ctx(c), d)
                       new == {x \in r.db.list_frameworks : x.list_id = r.body.id}
                   IN  /\ r.status = 201
                       /\ {x.framework_key : x \in new} =
                              {d.frameworks[k] : k \in DOMAIN d.frameworks} \cap FRAMEWORKS
                       /\ Cardinality(new) = Cardinality({x.framework_key : x \in new})
                       /\ r.db.list_frameworks \ new = list_frameworks

\* C6's case: an attach of a key the list already had answered 201 and changed
\* nothing, in a database where an import has attached a key too.
FrameworkRowsWitness ==
    /\ last.op = "add_list_framework" /\ last.status = 201 /\ ~last.changed
    /\ Cardinality(lists) = FwMaxLists
    /\ \A l \in lists : \E x \in list_frameworks : x.list_id = l.id

\* C7: detaching key K from a list L of the caller answers 200 and removes
\* the row (L, K) of list_frameworks and the item_framework_data rows of key K
\* on the items of L; every other row of every table stays.
DetachHolds ==
    \A c \in Clients :
        \A lid \in ListsOfUser(DB, session[c].user_id) :
            \A key \in ScnFw.keys :
                LET r == remove_list_framework(Ctx(c), lid, key)
                    in_L == {i.id : i \in ItemsOf(DB, lid)}
                IN  /\ r.status = 200
                    /\ r.db = [DB EXCEPT
                                  !.list_frameworks =
                                      {x \in @ : x.list_id # lid \/ x.framework_key # key},
                                  !.item_framework_data =
                                      {x \in @ : x.framework_key # key
                                                 \/ x.item_id \notin in_L}]

\* C7's case: a detach removed one of two data rows; the one that stayed is
\* on an item, and another list has an item too.
DetachWitness ==
    /\ last.op = "remove_list_framework" /\ last.status = 200 /\ last.changed
    /\ seq["item_framework_data"] = FwMaxData
    /\ \E x \in item_framework_data :
           /\ item_framework_data = {x}
           /\ \E i, j \in list_items :
                  i.id = x.item_id /\ j.id # i.id /\ j.list_id # i.list_id

\* C8: list_shares holds at most one row per (list, shared-with user); when
\* the owner of L shares it with B and then again with any permission, both
\* calls answer 200 and one row for (L, B) is left, with the permission of
\* the second call ("view" when it names neither "view" nor "edit"); the
\* other rows stay.
ShareOnceHolds ==
    /\ \A x, y \in list_shares :
           x.list_id = y.list_id /\ x.shared_with_id = y.shared_with_id => x = y
    /\ \A c \in Clients :
           \A lid \in ListsOfUser(DB, session[c].user_id) :
               \A name \in ScnShare.usernames :
                   \A p1, p2 \in PermissionInputs :
                       LET r1 == share_list(Ctx(c), lid, name, p1)
                           r2 == share_list([Ctx(c) EXCEPT !.db = r1.db], lid, name, p2)
                           B == {u.id : u \in {v \in users :
                                        v.username = lower(_san(name, MAX_STR))}}
                           of(d) == {x \in d.list_shares :
                                        x.list_id = lid /\ x.shared_with_id \in B}
                       IN  r1.status = 200 =>
                               /\ r2.status = 200
                               /\ Cardinality(of(r1.db)) = 1
                               /\ Cardinality(of(r2.db)) = 1
                               /\ \A x \in of(r2.db) :
                                      /\ x.permission =
                                             IF p2 \in {"view", "edit"} THEN p2 ELSE "view"
                                      /\ x.owner_id = session[c].user_id
                               /\ r2.db.list_shares \ of(r2.db) = list_shares \ of(DB)

\* C8's case: a share of a list already shared with that user answered 200
\* and changed the row's permission, inserting nothing.
ShareOnceWitness ==
    /\ last.op = "share_list" /\ last.status = 200
    /\ last.changed /\ ~last.inserted
    /\ Cardinality(list_shares) = 1 /\ seq["list_shares"] = 1

\* The columns an export and import are to carry over.
Carried(i) ==
    [title |-> i.title, description |-> i.description, priority |-> i.priority,
     due_date |-> i.due_date, completed |-> i.completed]

\* C9 (as the specification states it): for every list L of the caller, the
\* JSON export of L imported under a new name answers 201 with a list whose
\* items, read in order, carry the title, description, priority, due_date and
\* completed of L's items in the exported order.  A stored title with an
\* escaped character breaks it.
RoundTripHolds ==
    \A c \in Clients :
        \A lid \in ListsOfUser(DB, session[c].user_id) :
            \A tie \in Ties :
                \A name \in ScnExchange.texts :
                    LET e == export_list(Ctx(c), lid, "json", tie)
                        r == import_list(Ctx(c), [e.body EXCEPT !.name = name])
                        g == get_items([Ctx(c) EXCEPT !.db = r.db], r.body.id)
                    IN  /\ e.status = 200 /\ r.status = 201 /\ g.status = 200
                        /\ [k \in 1..Len(g.body) |-> Carried(g.body[k].item)] =
                               [k \in 1..Len(e.body.items) |-> Carried(e.body.items[k])]

\* The stored form of a username as typed.
Normalized(name) == lower(_san(name, MAX_STR))
Stored(name) == \E u \in users : u.username = Normalized(name)

\* C10, amended: a registration that answers 200 stores the lowercased
\* username; a login answers 200 only if a user is stored under the
\* normalized name with that password, and then the session is that user's;
\* a registration of a name whose normalized form is stored creates no user
\* and leaves the session, and answers 409 exactly when the address is not
\* rate-limited and the password has 6 to 128 characters (429 and 400
\* otherwise).
NormalizedLoginHolds ==
    \A c \in Clients :
        \A name \in ScnAuth.usernames :
            \A pw \in ScnAuth.passwords :
                LET reg == register(Ctx(c), name, pw)
                    log == login(Ctx(c), name, pw)
                    limited == _rate_limited(rate_store, RateKey(c, "auth"), now).limited
                IN  /\ reg.status = 200 =>
                           /\ ~Stored(name)
                           /\ \E u \in reg.db.users :
                                  /\ reg.db.users = users \cup {u}
                                  /\ u.username = Normalized(name)
                                  /\ u.username = lower(u.username)
                                  /\ login([Ctx(c) EXCEPT !.db = reg.db, !.rate = reg.rate,
                                                          !.sess = NoSession],
                                           name, pw).status \in {200, 429}
                    /\ log.status = 200 =>
                           \E u \in users :
                               /\ u.username = Normalized(name)
                               /\ check_password_hash(u.password, pw)
                               /\ log.sess = [user_id |-> u.id, username |-> u.username]
                    /\ log.status # 200 => log.sess = session[c]
                    /\ log.db = DB
                    /\ Stored(name) =>
                           /\ reg.db = DB /\ reg.sess = session[c]
                           /\ reg.status =
                                  IF limited THEN 429
                                  ELSE IF Len(pw) < MinPasswordLen \/ Len(pw) > MaxPasswordLen
                                       THEN 400 ELSE 409

\* C10's case: a registration was answered 409 while a user was logged in,
\* two users being stored.
NormalizedLoginWitness ==
    /\ last.op = "register" /\ last.status = 409 /\ last.uid # NoUser
    /\ Cardinality(users) = AuthMaxUsers
    /\ \A c \in Clients : session[c].user_id = last.uid

\* C10 (as the specification states it): a registration of a name whose
\* normalized form is stored always answers 409, creates no user and leaves
\* the session.
DuplicateAlwaysConflict ==
    \A c \in Clients :
        \A name \in ScnAuth.usernames :
            \A pw \in ScnAuth.passwords :
                Stored(name) =>
                    LET reg == register(Ctx(c), name, pw)
                    IN  reg.status = 409 /\ reg.db = DB /\ reg.sess = session[c]

\* C11: a create on a list L of the caller with a title answers 201 and
\* inserts one item whose position is 0 when L is empty and otherwise one
\* more than the greatest position in L; get_items(L) then returns it last.
NextPositionHolds ==
    \A c \in Clients :
        \A lid \in ListsOfUser(DB, session[c].user_id) :
            \A d \in ScnPos.items :
                LET r == create_item(Ctx(c), lid, d)
                    g == get_items([Ctx(c) EXCEPT !.db = r.db], lid)
                    old == ItemsOf(DB, lid)
                IN  IF _san(d.title, MAX_STR) = <<>>
                    THEN r.status = 400 /\ r.db = DB
                    ELSE /\ r.status = 201
                         /\ \E n \in r.db.list_items :
                                /\ r.db.list_items = list_items \cup {n}
                                /\ n \notin list_items
                                /\ n.id = r.body.id /\ n.list_id = lid
                                /\ old = {} => n.sort_order = 0
                                /\ \A i \in old : i.sort_order < n.sort_order
                                /\ old # {} => \E i \in old : i.sort_order + 1 = n.sort_order
                                /\ g.status = 200
                                /\ g.body[Len(g.body)].item = n

\* C11's case: a create answered 201 on a list whose other items do not hold
\* the positions 0, 1, ...: the new item's position is not the item count.
NextPositionWitness ==
    /\ last.op = "create_item" /\ last.status = 201 /\ last.inserted
    /\ \E n \in list_items :
           /\ n.id = seq["list_items"]
           /\ Cardinality(ItemsOf(DB, n.list_id)) >= 2
           /\ n.sort_order # Cardinality(ItemsOf(DB, n.list_id)) - 1

\* ------------------------------------------------- limiter under threads
LimiterMaxRequests == 11
ScnLimiter == [requests |-> LimiterMaxRequests]

NextLimiter ==
    \/ \E th \in Threads, c \in Clients : RateNow(th, c, ScnLimiter)
    \/ \E th \in Threads :
           \/ RateFilter(th) \/ RateAssign(th) \/ RateCheck(th)
           \/ RateAppend(th)

SpecLimiter == Init /\ [][NextLimiter]_vars

\* The requests of one sequence admitted in the window that opens at t0.
AdmittedIn(times, t0) ==
    Cardinality({i \in DOMAIN times :
                     times[i] >= t0 /\ times[i] - t0 < RATE_WINDOW})

\* C12: of the registration and login requests of one client address, at
\* most RATE_LIMIT are let past the limiter within any RATE_WINDOW seconds.
LimiterHolds ==
    \A c \in Clients :
        \A i \in DOMAIN admitted[c] :
            AdmittedIn(admitted[c], admitted[c][i]) <= RATE_LIMIT

\* --------------------------------------------------- absent or not owned
\* The list, item, tag, comment, share or template a request names in its
\* URL is absent, or is not the caller's.
AddressedMissing(d, a, req) ==
    LET f == DOMAIN req
    IN  \/ "lid" \in f /\ req.lid \notin ListsOfUser(d, a)
        \/ "iid" \in f /\ req.iid \notin ItemsOfUser(d, a)
        \/ /\ req.op \in {"delete_tag", "add_item_tag", "remove_item_tag"}
           /\ ~\E t \in d.tags : t.id = req.tid /\ t.user_id = a
        \/ /\ req.op \in {"create_from_template", "delete_template"}
           /\ ~\E t \in d.list_templates : t.id = req.tid /\ t.user_id = a
        \/ "cid" \in f /\ ~\E m \in d.item_comments : m.id = req.cid /\ m.user_id = a
        \/ "sid" \in f /\ ~\E r \in d.list_shares : r.id = req.sid /\ r.owner_id = a

\* C13: a request of a logged-in user addressed to a list, item, tag,
\* comment, share or template that is absent or not the caller's answers 404
\* and changes nothing, whichever of the two is the case.
NotFoundHolds ==
    \A c \in Clients :
        session[c].user_id # NoUser =>
            \A k \in DOMAIN ProtectedRequests(ScnOwners) :
                \A req \in ProtectedRequests(ScnOwners)[k] :
                    AddressedMissing(DB, session[c].user_id, req) =>
                        LET r == Handle(Ctx(c), req)
                        IN  r.status = 404 /\ r.db = DB /\ r.sess = session[c]

\* ------------------------------------------------------------- templates
\* One user saves lists as templates and instantiates them, between edits of
\* the lists; titles and names with a character that html_escape rewrites.
TplMaxLists == 2
TplMaxItems == 3
TplMaxTemplates == 1
ScnTpl ==
    [cap |-> Caps(1, TplMaxLists, TplMaxItems, 0, 0, 0, 0, 0, TplMaxTemplates),
     auth |-> 1, ticks |-> 0,
     observe |-> {"save_template", "create_from_template"},
     usernames |-> {U_bob}, passwords |-> {PwSecret},
     texts |-> {T_empty, T_amp}, descs |-> {T_empty},
     items |-> {ItemBody(T_amp, "high"),
                [ItemBody(T_a, "low") EXCEPT !.due_date = D_2024]},
     keys |-> {"kanban"}, data |-> {"d1"},
     imports |-> {ImportDoc(T_a, <<>>, <<>>)}]
NextTpl ==
    \E c \in Clients :
        \/ Register(c, ScnTpl) \/ CreateList(c, ScnTpl)
        \/ CreateItem(c, ScnTpl) \/ ToggleItem(c, ScnTpl)
        \/ SaveTemplate(c, ScnTpl)
        \/ CreateFromTemplate(c, ScnTpl)
SpecTpl == Init /\ [][NextTpl]_vars

\* What a template keeps of an item.
Snapshot(i) == [title |-> i.title, description |-> i.description, priority |-> i.priority]

\* The requests that edit a list or its items.
ListEdits(P) ==
    ReqUpdateList(P) \cup ReqDeleteList(P) \cup ReqCreateItem(P)
        \cup ReqUpdateItem(P) \cup ReqDeleteItem(P) \cup ReqToggleItem(P)

\* List nl of database d is an instance of the item sequence rows.
InstanceOf(d, nl, rows) ==
    LET made == OrderBy(ItemsOf(d, nl), 1)
    IN  /\ Len(made) = Len(rows)
        /\ \A k \in DOMAIN made :
               /\ Snapshot(made[k]) = Snapshot(rows[k])
               /\ made[k].completed = 0
               /\ made[k].due_date = NoDate

\* C14: save list L as a template, edit L in any way, then instantiate the
\* template: the new list is the caller's, its items in order carry the
\* title, description and priority that L's items had in sort order when the
\* template was saved, none completed and none with a due date, and its name
\* is the name given with the request, else the template's name.
TemplateHolds ==
    \A c \in Clients :
        \A lid \in ListsOfUser(DB, session[c].user_id) :
            \A name \in ScnTpl.texts, tie \in Ties :
                LET s == save_template(Ctx(c), lid, name, tie)
                    rows == OrderBy(ItemsOf(DB, lid), tie)
                IN  s.status = 201 =>
                        \A edit \in ListEdits(ScnTpl), given \in ScnTpl.texts :
                            LET e == Handle([Ctx(c) EXCEPT !.db = s.db], edit)
                                g == create_from_template(
                                         [Ctx(c) EXCEPT !.db = e.db], s.body.id, given)
                                t == CHOOSE x \in s.db.list_templates : x.id = s.body.id
                            IN  /\ g.status = 201
                                /\ \E nl \in g.db.lists :
                                       /\ nl.id = g.body.id
                                       /\ nl.id \notin {l.id : l \in e.db.lists}
                                       /\ nl.user_id = session[c].user_id
                                       /\ nl.name = IF given = <<>> THEN t.name
                                                    ELSE _san(given, MAX_STR)
                                       /\ InstanceOf(g.db, nl.id, rows)

\* --------------------------------------------------------- shared reading
\* What handlers see when user b has logged in from client c.
CtxAs(c, b) ==
    LET lg == login(Ctx(c), b.username, PwSecret)
    IN  [Ctx(c) EXCEPT !.sess = lg.sess, !.rate = lg.rate]

\* User b, logged in, reads the items of list lid and gets them all.
ReadsItems(c, b, lid) ==
    LET g == get_items(CtxAs(c, b), lid)
    IN  /\ g.status = 200
        /\ {g.body[k].item : k \in DOMAIN g.body} = ItemsOf(DB, lid)

\* List lid is in b's shared-with-me view under its owner's name and with
\* its item count.
InSharedView(c, b, lid) ==
    LET v == get_shared_lists(CtxAs(c, b))
    IN  /\ v.status = 200
        /\ \E e \in v.body :
               /\ e.list.id = lid
               /\ \E a \in users : a.id = e.list.user_id /\ a.username = e.owner_name
               /\ e.item_count = Cardinality(ItemsOf(DB, lid))

\* C15: while list L of user A is shared with user B, B's read of L's items
\* returns them and L is in B's shared-with-me view with A's username and
\* L's item count; while it is not shared with B, B's read answers 404.
SharedReadHolds ==
    \A c \in Clients, b \in users, l \in lists :
        l.user_id # b.id =>
            /\ CtxAs(c, b).sess.user_id = b.id
            /\ IF \E r \in list_shares : r.list_id = l.id /\ r.shared_with_id = b.id
               THEN ReadsItems(c, b, l.id) /\ InSharedView(c, b, l.id)
               ELSE get_items(CtxAs(c, b), l.id).status = 404

\* ---------------------------------------------------- comment ownership
\* User a owns item iid, or the item's list is shared with a.
HasAccess(d, a, iid) ==
    \/ iid \in ItemsOfUser(d, a)
    \/ \E i \in d.list_items, r \in d.list_shares :
           i.id = iid /\ r.list_id = i.list_id /\ r.shared_with_id = a

\* C16: add_comment on an item that is absent or not the caller's answers
\* 404 and inserts no comment, so the author of every comment stored has
\* access to the item it is on.
CommentOwnerHolds ==
    /\ \A m \in item_comments : HasAccess(DB, m.user_id, m.item_id)
    /\ \A c \in Clients :
           session[c].user_id # NoUser =>
               \A req \in ReqAddComment(ScnOwners) :
                   ~OwnsItem(Ctx(c), req.iid) =>
                       LET r == add_comment(Ctx(c), req.iid, req.content)
                       IN  r.status = 404 /\ r.db.item_comments = item_comments

\* ------------------------------------------------ batch write, its scope
\* The framework-data rows of database d on items outside list lid.
DataOutside(d, lid) ==
    {r \in d.item_framework_data :
        \A i \in d.list_items : i.id = r.item_id => i.list_id # lid}

\* C17: the batch framework-data write on list L writes and changes rows
\* only for items of L; the rows of every item of another list, the
\* caller's or not, stay as they are and none is added.
BatchScopeHolds ==
    \A c \in Clients :
        session[c].user_id # NoUser =>
            \A req \in ReqBatchUpdateFrameworkData(ScnOwners) :
                LET r == batch_update_framework_data(Ctx(c), req.lid, req.key, req.items)
                IN  /\ DataOutside(r.db, req.lid) = DataOutside(DB, req.lid)
                    /\ r.db.list_items = list_items

\* ------------------------------------------------------------- bulk move
\* Two users with lists and items; items are moved between lists.
MoveMaxUsers == 2
MoveMaxLists == 3
MoveMaxItems == 2
ScnMove ==
    [cap |-> Caps(MoveMaxUsers, MoveMaxLists, MoveMaxItems, 0, 0, 0, 0, 0, 0),
     auth |-> MoveMaxUsers, ticks |-> 0,
     observe |-> {"bulk_move_items"},
     usernames |-> {U_bob, U_ann}, passwords |-> {PwSecret},
     texts |-> {T_a}, descs |-> {T_empty},
     items |-> {ItemBody(T_a, "high")},
     keys |-> {"kanban"}, data |-> {"d1"},
     imports |-> {ImportDoc(T_a, <<>>, <<>>)}]
NextMove ==
    \E c \in Clients :
        \/ Register(c, ScnMove) \/ CreateList(c, ScnMove)
        \/ CreateItem(c, ScnMove) \/ BulkMoveItems(c, ScnMove)
SpecMove == Init /\ [][NextMove]_vars

\* The owners of the list that item row i is in (one, by the foreign key).
OwnersOf(d, i) == {l.user_id : l \in {x \in d.lists : x.id = i.list_id}}

\* Every item of database d1 that is still an item of d2 has the same owner.
OwnersKept(d1, d2) ==
    \A i \in d1.list_items, j \in d2.list_items :
        i.id = j.id => OwnersOf(d2, j) = OwnersOf(d1, i)

\* C18: a bulk move from S to T by a user who owns both moves exactly the
\* listed ids that are items of S and leaves every other item where it is;
\* when S or T is absent or another user's it answers 404 and changes
\* nothing; and no request of any protected route gives an item a list of
\* another owner, so an item stays with the owner of the list it was made in.
MoveHolds ==
    \A c \in Clients, b \in users :
        /\ \A req \in ReqBulkMoveItems(ScnMove) :
               LET r == bulk_move_items(CtxAs(c, b), req.lid, req.ids, req.target_list_id)
                   mine == ListsOfUser(DB, b.id)
                   moved == {i \in list_items : i.id \in req.ids /\ i.list_id = req.lid}
               IN  IF req.lid \in mine /\ req.target_list_id \in mine
                   THEN /\ r.status = 200
                        /\ r.db.list_items =
                               (list_items \ moved) \cup
                                   {[i EXCEPT !.list_id = req.target_list_id] : i \in moved}
                   ELSE r.status = 404 /\ r.db = DB
        /\ \A k \in DOMAIN ProtectedRequests(ScnMove) :
               \A req \in ProtectedRequests(ScnMove)[k] :
                   LET r == Handle(CtxAs(c, b), req)
                   IN  /\ OwnersKept(DB, r.db)
                       /\ \A j \in r.db.list_items \ list_items :
                              (\A i \in list_items : i.id # j.id) =>
                                  OwnersOf(r.db, j) = {b.id}

\* A user who owns two lists has moved an item between them while another
\* user's list exists.
MoveWitness ==
    /\ last.op = "bulk_move_items" /\ last.status = 200 /\ last.changed
    /\ \E l \in lists : l.user_id # last.uid
    /\ Cardinality(ListsOfUser(DB, last.uid)) >= 2

\* ------------------------------------------------- registrations racing
\* Registrations handled at once by the request threads, two of the names
\* normalizing to the same username.
RaceMaxRequests == 2
ScnRace ==
    [requests |-> RaceMaxRequests,
     usernames |-> {U_bob, U_Bob, U_ann}, passwords |-> {PwSecret, PwShort}]
NextRace ==
    \/ \E th \in Threads, c \in Clients : RegBegin(th, c, ScnRace)
    \/ \E th \in Threads :
           \/ RegSelect(th) \/ RegInsert(th) \/ RegBusy(th) \/ RegCommit(th)
SpecRace == Init /\ [][NextRace]_vars

\* The registrations of username n that got past the limiter and the checks
\* of the request body and have been answered.
Answered(n) ==
    {th \in Threads : /\ thr[th].pc = "done" /\ thr[th].username = n
                      /\ thr[th].status \notin {400, 429}}

\* C19: of the registrations of one normalized username that have been
\* answered, one created the user and answered 200 and every other answered
\* 409; there are never two users of that name.
RaceOneWinner ==
    \A n \in {lower(_san(x, MAX_STR)) : x \in ScnRace.usernames} :
        /\ Cardinality({u \in users : u.username = n}) <= 1
        /\ \A th \in Answered(n) : thr[th].status \in {200, 409}
        /\ Answered(n) # {} =>
               Cardinality({th \in Answered(n) : thr[th].status = 200}) = 1

\* ---------------------------------------------------------- failed batch
\* One user's lists and items, some deleted again, and the four batch routes;
\* the batch write names items that exist and items that do not.
BatchMaxLists == 2
BatchMaxItems == 2
BatchMaxData == 2
ScnBatch ==
    [cap |-> Caps(1, BatchMaxLists, BatchMaxItems, 0, BatchMaxData, 0, 0, 0, 0),
     auth |-> 1, ticks |-> 0,
     observe |-> {"batch_update_framework_data"},
     usernames |-> {U_bob}, passwords |-> {PwSecret},
     texts |-> {T_a}, descs |-> {T_empty},
     items |-> {ItemBody(T_a, "high")},
     keys |-> {"kanban"}, data |-> {"d1", "d2"},
     imports |-> {ImportDoc(T_a, <<>>, <<>>)}]
NextBatch ==
    \E c \in Clients :
        \/ Register(c, ScnBatch) \/ CreateList(c, ScnBatch)
        \/ CreateItem(c, ScnBatch) \/ DeleteItem(c, ScnBatch)
        \/ BatchUpdateFrameworkData(c, ScnBatch) \/ ReorderItems(c, ScnBatch)
        \/ BulkDeleteItems(c, ScnBatch) \/ BulkMoveItems(c, ScnBatch)
SpecBatch == Init /\ [][NextBatch]_vars

\* The requests of the four batch routes.
BatchRequests(P) ==
    ReqReorderItems(P) \cup ReqBulkDeleteItems(P) \cup ReqBulkMoveItems(P)
        \cup ReqBatchUpdateFrameworkData(P)

\* Request req is a batch write on a list of the caller whose loop changes
\* something for an earlier id and then fails on a later one.
FailsPartWay(ctx, req) ==
    /\ req.op = "batch_update_framework_data"
    /\ _owns_list(ctx, req.lid)
    /\ LET tx == UpsertAll(ctx.db, req.key, req.items)
       IN  tx.failed /\ tx.db # ctx.db

\* C20, as stated: a batch request that fails part-way leaves the changes
\* made for the earlier ids of the batch in the database.
PartialEffectsPersist ==
    \A c \in Clients :
        \A req \in BatchRequests(ScnBatch) :
            FailsPartWay(Ctx(c), req) =>
                LET r == Handle(Ctx(c), req)
                IN  r.db = UpsertAll(DB, req.key, req.items).db

\* C20, amended: each of the four batch routes commits once, after its
\* loop; a request that is answered with an error has changed nothing, also
\* when its loop had changed rows for earlier ids before it failed, and a
\* batch write answered 200 has written every entry.
BatchAtomicHolds ==
    \A c \in Clients :
        \A req \in BatchRequests(ScnBatch) :
            LET r == Handle(Ctx(c), req)
            IN  /\ r.status # 200 => r.db = DB
                /\ FailsPartWay(Ctx(c), req) => r.status = 500 /\ r.db = DB
                /\ (req.op = "batch_update_framework_data" /\ r.status = 200) =>
                       \A iid \in DOMAIN req.items :
                           \E x \in r.db.item_framework_data :
                               /\ x.item_id = iid /\ x.framework_key = req.key
                               /\ x.data_json = req.items[iid]

\* A batch write was answered 500 and changed nothing while an item it could
\* have written for exists.
BatchAtomicWitness ==
    /\ last.op = "batch_update_framework_data"
    /\ last.status = 500 /\ ~last.changed
    /\ list_items # {}
    /\ \E c \in Clients, req \in ReqBatchUpdateFrameworkData(ScnBatch) :
           FailsPartWay(Ctx(c), req)

\* ------------------------------------------------------ strict positions
\* C21: no two items of one list have the same sort_order, so ORDER BY
\* sort_order alone orders the items of a list strictly.
StrictPositions ==
    \A i \in list_items, j \in list_items :
        (i.list_id = j.list_id /\ i.sort_order = j.sort_order) => i.id = j.id

\* ------------------------------------------------- titles and priorities
\* One user writes items through every route that stores them, with titles
\* that are empty or blank and a priority outside the enum among the inputs.
T_blank == <<" ", " ">>
ValidMaxLists == 3
ValidMaxItems == 3
ValidMaxTemplates == 1
ScnValid ==
    [cap |-> Caps(1, ValidMaxLists, ValidMaxItems, 0, 0, 0, 0, 0, ValidMaxTemplates),
     auth |-> 1, ticks |-> 0,
     observe |-> {"create_item", "update_item"},
     usernames |-> {U_bob}, passwords |-> {PwSecret},
     texts |-> {T_a}, descs |-> {T_empty},
     items |-> {ItemBody(T_a, "high"), ItemBody(T_padded, "urgent"),
                ItemBody(T_empty, "low"), ItemBody(T_blank, "high")},
     keys |-> {"kanban"}, data |-> {"d1"},
     imports |-> {ImportDoc(T_a, <<ImportItem(T_blank, "low", 0),
                                   ImportItem(T_a, "urgent", 1)>>, <<>>)}]
NextValid ==
    \E c \in Clients :
        \/ Register(c, ScnValid) \/ CreateList(c, ScnValid)
        \/ CreateItem(c, ScnValid) \/ UpdateItem(c, ScnValid)
        \/ ImportList(c, ScnValid) \/ SaveTemplate(c, ScnValid)
        \/ CreateFromTemplate(c, ScnValid)
SpecValid == Init /\ [][NextValid]_vars

\* Item row n carries what body d asks for: its title, and its priority, or
\* medium for a priority outside the enum.
WrittenAs(n, d) ==
    /\ n.title = _san(d.title, MAX_STR)
    /\ n.priority = IF d.priority \in {"low", "medium", "high"} THEN d.priority
                    ELSE "medium"

\* C22: every stored item has a title that is not empty and a priority of
\* low, medium or high; a create or update on an item or list of the caller
\* with an empty title answers 400 and changes nothing, and otherwise stores
\* the title with the priority asked for, or medium for one outside the enum.
ValidItemsHolds ==
    /\ \A i \in list_items :
           i.title # <<>> /\ i.priority \in {"low", "medium", "high"}
    /\ \A c \in Clients, d \in ScnValid.items :
           /\ \A lid \in ListsOfUser(DB, session[c].user_id) :
                  LET r == create_item(Ctx(c), lid, d)
                  IN  IF _san(d.title, MAX_STR) = <<>>
                      THEN r.status = 400 /\ r.db = DB
                      ELSE /\ r.status = 201
                           /\ \E n \in r.db.list_items \ list_items : WrittenAs(n, d)
           /\ \A i \in list_items :
                  i.id \in ItemsOfUser(DB, session[c].user_id) =>
                      LET r == update_item(Ctx(c), i.list_id, i.id, d)
                      IN  IF _san(d.title, MAX_STR) = <<>>
                          THEN r.status = 400 /\ r.db = DB
                          ELSE /\ r.status = 200
                               /\ \E n \in r.db.list_items : n.id = i.id /\ WrittenAs(n, d)

\* A create or update with an empty title has just been refused, and an item
\* sent with a priority outside the enum is stored as medium, next to items
\* made from an import and from a template.
ValidItemsWitness ==
    /\ last.op \in {"create_item", "update_item"}
    /\ last.status = 400 /\ ~last.changed
    /\ \E i \in list_items : i.priority = "medium"
    /\ list_templates # {}
    /\ \E i \in list_items : i.completed = 1

\* ------------------------------------------------------ orphaned payloads
\* C23: every item_framework_data row has a key of the catalog that is
\* attached to the list its item is in.
NoOrphanData ==
    \A r \in item_framework_data :
        /\ r.framework_key \in FRAMEWORKS
        /\ \E i \in list_items, f \in list_frameworks :
               /\ i.id = r.item_id
               /\ f.list_id = i.list_id /\ f.framework_key = r.framework_key

\* ------------------------------------------------------------ list names
\* One user creates, renames and imports lists; empty and blank names are
\* among the names sent.
NamesMaxLists == 3
ScnNames ==
    [cap |-> Caps(1, NamesMaxLists, 0, 0, 0, 0, 0, 0, 0),
     auth |-> 1, ticks |-> 0,
     observe |-> {"create_list", "update_list", "import_list"},
     usernames |-> {U_bob}, passwords |-> {PwSecret},
     texts |-> {T_a, T_b, T_empty, T_blank}, descs |-> {T_empty, T_a},
     items |-> {ItemBody(T_a, "high")},
     keys |-> {"kanban"}, data |-> {"d1"},
     imports |-> {ImportDoc(T_a, <<>>, <<>>), ImportDoc(T_empty, <<>>, <<>>),
                  ImportDoc(T_blank, <<>>, <<>>)}]
NextNames ==
    \E c \in Clients :
        \/ Register(c, ScnNames) \/ CreateList(c, ScnNames)
        \/ UpdateList(c, ScnNames) \/ ImportList(c, ScnNames)
SpecNames == Init /\ [][NextNames]_vars

\* C24: every list has a name that is not empty: create_list refuses an
\* empty or blank name, and no later request leaves a list without a name.
NamedLists ==
    /\ \A l \in lists : l.name # <<>>
    /\ \A c \in Clients, name \in ScnNames.texts, desc \in ScnNames.descs :
           session[c].user_id # NoUser =>
               LET r == create_list(Ctx(c), name, desc)
               IN  strip(name) = <<>> => r.status = 400 /\ r.db = DB

====
